---- MODULE Spec2Model ----
(***************************************************************************)
(* The battle_game server: the tick engine (server/engine.py), the wire    *)
(* schemas it builds (shared/schemas.py), the hex algebra                  *)
(* (shared/hex_math.py) and the scheduler and handlers of server/main.py.  *)
(*                                                                         *)
(* HP and damage are Python floats in the source.  Here they are fixed     *)
(* point integers counting 1/HPScale of a hit point; divisions truncate.   *)
(* Attack and defence carry one decimal (the 1.10 research multiplier), so *)
(* they are kept in tenths.                                                *)
(***************************************************************************)
EXTENDS Integers, Sequences, FiniteSets, TLC

None == "None"
\* Order.dest when the order carries none (dest = None).
NoDest == << >>

Max(a, b) == IF a >= b THEN a ELSE b
Min(a, b) == IF a <= b THEN a ELSE b
Abs(a) == IF a >= 0 THEN a ELSE -a

\* Fixed-point resolution of HP and damage values.
HPScale == 1000

(***************************************************************************)
(* shared/schemas.py                                                       *)
(***************************************************************************)
CHIEF == "Chief"
LIGHT_INFANTRY == "Light Infantry"
SCOUT == "Scout"
ARMORED == "Armored"
MECHANIZED == "Mechanized"
SPECIAL_FORCES == "Special Forces"
UnitType == {CHIEF, LIGHT_INFANTRY, SCOUT, ARMORED, MECHANIZED, SPECIAL_FORCES}

WAITING == "WAITING"
ACTIVE == "ACTIVE"
FINISHED == "FINISHED"

MOVE == "MOVE"
BUILD == "BUILD"
RESEARCH == "RESEARCH"

\* Resources(): the three pools default to 0.
Resources == [M |-> 0, F |-> 0, I |-> 0]

\* The values the Literal of Event.type admits.
EventTypeLiteral == {"COMBAT", "CAPTURE", "ELIMINATION", "RESEARCH"}

\* EventValidates with "BUILD" among the values of the Literal.
EventValidates_with_build(type) == type \in EventTypeLiteral \cup {"BUILD"}

\* Event(type=..., loc=..., details=...): pydantic validates the fields on
\* construction; a type outside the Literal raises ValidationError.
EventValidates(type) == type \in EventTypeLiteral

Event(type, loc, details) == [type |-> type, loc |-> loc, details |-> details]

(***************************************************************************)
(* shared/hex_math.py                                                      *)
(***************************************************************************)
Hex(q, r) == <<q, r>>

HexAdd(a, b) == Hex(a[1] + b[1], a[2] + b[2])
HexSub(a, b) == Hex(a[1] - b[1], a[2] - b[2])
HexS(h) == -h[1] - h[2]

HEX_DIRECTIONS == << Hex(1, 0), Hex(1, -1), Hex(0, -1),
                     Hex(-1, 0), Hex(-1, 1), Hex(0, 1) >>

hex_length(h) == (Abs(h[1]) + Abs(h[2]) + Abs(HexS(h))) \div 2

hex_distance(a, b) == hex_length(HexSub(a, b))

hex_neighbors(h) == [i \in 1..6 |-> HexAdd(h, HEX_DIRECTIONS[i])]

(***************************************************************************)
(* server/engine.py: constants and stat helpers                            *)
(***************************************************************************)
DEF_CONSTANT == 25
RESEARCH_COST == 200
STACK_CAP == 10
MAP_RADIUS == 20
UPKEEP_PERIOD == 10

UNIT_COSTS ==
    (LIGHT_INFANTRY :> [M |-> 40, F |-> 0, I |-> 0]) @@
    (SCOUT :> [M |-> 60, F |-> 0, I |-> 0]) @@
    (ARMORED :> [M |-> 120, F |-> 40, I |-> 0]) @@
    (MECHANIZED :> [M |-> 140, F |-> 60, I |-> 0]) @@
    (SPECIAL_FORCES :> [M |-> 80, F |-> 0, I |-> 30])

\* UNIT_COSTS.get(order.unit, {}) followed by costs.get(k, 0).
CostOf(unit) == IF unit \in DOMAIN UNIT_COSTS THEN UNIT_COSTS[unit] ELSE Resources

UNIT_UPKEEP == (ARMORED :> 4) @@ (MECHANIZED :> 6)

get_unit_stats(u_type) ==
    CASE u_type = CHIEF -> [hp |-> 150, mp |-> 1]
      [] u_type = ARMORED -> [hp |-> 120, mp |-> 1]
      [] u_type = SCOUT -> [hp |-> 40, mp |-> 3]
      [] u_type = LIGHT_INFANTRY -> [hp |-> 60, mp |-> 2]
      [] u_type = MECHANIZED -> [hp |-> 90, mp |-> 2]
      [] u_type = SPECIAL_FORCES -> [hp |-> 80, mp |-> 2]
      [] OTHER -> [hp |-> 10, mp |-> 1]

\* In fixed point.
get_max_hp(u_type) == get_unit_stats(u_type).hp * HPScale

InSeq(x, s) == \E i \in 1..Len(s) : s[i] = x

\* The research multiplier in tenths: 1.0, or 1.10 for upgraded infantry.
Mult10(u_type, upgrades) ==
    IF u_type = LIGHT_INFANTRY /\ InSeq("INFANTRY_TIER_1", upgrades) THEN 11 ELSE 10

\* base * mult, in tenths.
get_base_atk(u_type, upgrades) ==
    LET base == CASE u_type = ARMORED -> 20
                  [] u_type = MECHANIZED -> 18
                  [] u_type = SPECIAL_FORCES -> 14
                  [] u_type = CHIEF -> 12
                  [] u_type = SCOUT -> 6
                  [] OTHER -> 10
    IN base * Mult10(u_type, upgrades)

\* base * mult, in tenths.
get_base_def(u_type, upgrades) ==
    LET base == CASE u_type = ARMORED -> 16
                  [] u_type = MECHANIZED -> 12
                  [] u_type = SPECIAL_FORCES -> 10
                  [] u_type = CHIEF -> 12
                  [] u_type = SCOUT -> 4
                  [] OTHER -> 6
    IN base * Mult10(u_type, upgrades)

UnitState(id, type, q, r, hp, mp, owner) ==
    [id |-> id, type |-> type, q |-> q, r |-> r, hp |-> hp, mp |-> mp, owner |-> owner]

FacilityState(id, q, r, owner) == [id |-> id, q |-> q, r |-> r, owner |-> owner]

(***************************************************************************)
(* process_tick works on a context c: the fields of next_state (tick,      *)
(* game_status, units, facilities, events), the engine's stores it updates *)
(* in place (res = player_resources, upg = player_upgrades), the indexes   *)
(* built at line 90-95 (n0 units are indexed by id; up = unit_positions,   *)
(* a list of [hex, occ] in dict insertion order, occ the indexes of the    *)
(* units listed for the hex), the exception raised if any, and the number  *)
(* of uuid draws made.  Units are referred to by their index in c.units,   *)
(* which stands for the object shared by the list and the indexes.         *)
(***************************************************************************)
NoError == "none"

\* self.player_resources.get(player_id, Resources())
ResGet(res, player_id) == IF player_id \in DOMAIN res THEN res[player_id] ELSE Resources

\* self.player_upgrades.get(owner, [])
UpgGet(upg, owner) == IF owner \in DOMAIN upg THEN upg[owner] ELSE << >>

\* Variant of _reset_mp_and_upkeep: an unpaid upkeep takes what Fuel is left.
RECURSIVE reset_mp_and_upkeep_partial(_, _)
reset_mp_and_upkeep_partial(c, i) ==
    IF i > Len(c.units) THEN c
    ELSE LET unit == c.units[i]
             max_mp == get_unit_stats(unit.type).mp
             is_upkeep_tick == (c.tick % UPKEEP_PERIOD = 0)
         IN IF is_upkeep_tick /\ unit.type \in DOMAIN UNIT_UPKEEP
            THEN LET cost == UNIT_UPKEEP[unit.type]
                 IN IF unit.owner \in DOMAIN c.res /\ c.res[unit.owner].F >= cost
                    THEN reset_mp_and_upkeep_partial(
                            [c EXCEPT !.res[unit.owner].F = @ - cost,
                                      !.units[i].mp = max_mp], i + 1)
                    ELSE IF unit.owner \in DOMAIN c.res
                    THEN reset_mp_and_upkeep_partial(
                            [c EXCEPT !.res[unit.owner].F = 0,
                                      !.units[i].mp = Max(0, (max_mp * 3) \div 4)], i + 1)
                    ELSE reset_mp_and_upkeep_partial(
                            [c EXCEPT !.units[i].mp = Max(0, (max_mp * 3) \div 4)], i + 1)
            ELSE reset_mp_and_upkeep_partial([c EXCEPT !.units[i].mp = max_mp], i + 1)

\* _reset_mp_and_upkeep, from unit i on.
RECURSIVE reset_mp_and_upkeep_from(_, _)
reset_mp_and_upkeep_from(c, i) ==
    IF i > Len(c.units) THEN c
    ELSE LET unit == c.units[i]
             max_mp == get_unit_stats(unit.type).mp
             is_upkeep_tick == (c.tick % UPKEEP_PERIOD = 0)
         IN IF is_upkeep_tick /\ unit.type \in DOMAIN UNIT_UPKEEP
            THEN LET cost == UNIT_UPKEEP[unit.type]
                 IN IF unit.owner \in DOMAIN c.res /\ c.res[unit.owner].F >= cost
                    THEN reset_mp_and_upkeep_from(
                            [c EXCEPT !.res[unit.owner].F = @ - cost,
                                      !.units[i].mp = max_mp], i + 1)
                    ELSE reset_mp_and_upkeep_from(
                            [c EXCEPT !.units[i].mp = Max(0, (max_mp * 3) \div 4)], i + 1)
            ELSE reset_mp_and_upkeep_from([c EXCEPT !.units[i].mp = max_mp], i + 1)

reset_mp_and_upkeep(c) == reset_mp_and_upkeep_from(c, 1)

\* Python raises: the first exception raised is kept, the rest of the call is skipped.
Raise(c, exc) == IF c.raised = NoError THEN [c EXCEPT !.raised = exc] ELSE c

\* An append of the event that constructs no Event object.
Emit_unvalidated(c, type, loc, details) ==
    [c EXCEPT !.events = Append(@, Event(type, loc, details))]

\* state.events.append(Event(type=..., ...)): the Event is constructed first.
Emit(c, type, loc, details) ==
    IF EventValidates(type)
    THEN [c EXCEPT !.events = Append(@, Event(type, loc, details))]
    ELSE Raise(c, "ValidationError")

\* _handle_research without the test of line 169.
handle_research_unchecked(player_id, order, c) ==
    LET upg1 == IF player_id \in DOMAIN c.upg THEN c.upg
                ELSE (player_id :> << >>) @@ c.upg
        c1 == [c EXCEPT !.upg = upg1]
    IN IF InSeq(order.tech_id, upg1[player_id]) \/ player_id \notin DOMAIN c.res THEN c1
       ELSE Emit([c1 EXCEPT !.res[player_id].I = @ - RESEARCH_COST,
                            !.upg[player_id] = Append(@, order.tech_id)],
                 "RESEARCH", Hex(0, 0),
                 [tech_id |-> order.tech_id, owner |-> player_id])

\* Variant of _handle_research: the technology is added and announced, the
\* Intel is not debited.
handle_research_free(player_id, order, c) ==
    LET res == ResGet(c.res, player_id)
        upg1 == IF player_id \in DOMAIN c.upg THEN c.upg
                ELSE (player_id :> << >>) @@ c.upg
        c1 == [c EXCEPT !.upg = upg1]
    IN IF InSeq(order.tech_id, upg1[player_id]) THEN c1
       ELSE IF res.I >= RESEARCH_COST
            THEN Emit([c1 EXCEPT !.upg[player_id] = Append(@, order.tech_id)],
                      "RESEARCH", Hex(0, 0),
                      [tech_id |-> order.tech_id, owner |-> player_id])
            ELSE c1

\* _handle_research
handle_research(player_id, order, c) ==
    LET res == ResGet(c.res, player_id)
        \* self.player_upgrades[player_id] on a defaultdict(list) makes the entry
        upg1 == IF player_id \in DOMAIN c.upg THEN c.upg
                ELSE (player_id :> << >>) @@ c.upg
        c1 == [c EXCEPT !.upg = upg1]
    IN IF InSeq(order.tech_id, upg1[player_id]) THEN c1
       ELSE IF res.I >= RESEARCH_COST
            THEN Emit([c1 EXCEPT !.res[player_id].I = @ - RESEARCH_COST,
                                 !.upg[player_id] = Append(@, order.tech_id)],
                      "RESEARCH", Hex(0, 0),
                      [tech_id |-> order.tech_id, owner |-> player_id])
            ELSE c1

\* unit_positions: position of hex h in the dict, 0 when it has no entry.
UpIndex(up, h) ==
    IF \E k \in 1..Len(up) : up[k].hex = h
    THEN CHOOSE k \in 1..Len(up) : up[k].hex = h
    ELSE 0

\* unit_positions.get(h, [])
UpGet(up, h) == IF UpIndex(up, h) = 0 THEN << >> ELSE up[UpIndex(up, h)].occ

\* unit_positions[h] on a defaultdict(list): a missing key is inserted.
UpTouch(up, h) == IF UpIndex(up, h) = 0 THEN Append(up, [hex |-> h, occ |-> << >>]) ELSE up

\* unit_positions[h].append(unit i)
UpAppend(up, h, i) ==
    LET up1 == UpTouch(up, h) IN [up1 EXCEPT ![UpIndex(up1, h)].occ = Append(@, i)]

\* The index built at lines 91-93, for units i..Len(units).
RECURSIVE IndexPositions(_, _, _)
IndexPositions(units, i, up) ==
    IF i > Len(units) THEN up
    ELSE IndexPositions(units, i + 1, UpAppend(up, Hex(units[i].q, units[i].r), i))

\* {f.id: f for f in facilities}: the last facility with the id.
FacilityById(facilities, fac_id) ==
    LET ks == {k \in 1..Len(facilities) : facilities[k].id = fac_id}
    IN IF ks = {} THEN 0 ELSE CHOOSE k \in ks : \A j \in ks : j <= k

\* _handle_build; uu lists the uuid4 draws of this call in order.
handle_build(player_id, order, c, uu) ==
    IF FacilityById(c.facilities, order.fac_id) = 0 THEN c
    ELSE LET fac == c.facilities[FacilityById(c.facilities, order.fac_id)]
             loc == Hex(fac.q, fac.r)
             up1 == UpTouch(c.up, loc)
             costs == CostOf(order.unit)
             res == ResGet(c.res, player_id)
         IN IF fac.owner # player_id THEN c
            ELSE IF Len(UpGet(up1, loc)) >= STACK_CAP THEN [c EXCEPT !.up = up1]
            ELSE IF ~(res.M >= costs.M /\ res.F >= costs.F /\ res.I >= costs.I)
                 THEN [c EXCEPT !.up = up1]
            ELSE LET \* res is the stored object when the player has one; the
                     \* debit of a Resources() default is lost with it
                     res1 == IF player_id \in DOMAIN c.res
                             THEN [c.res EXCEPT ![player_id] =
                                     [M |-> res.M - costs.M, F |-> res.F - costs.F,
                                      I |-> res.I - costs.I]]
                             ELSE c.res
                     u_id == uu[c.nb + 1]
                     stats == get_unit_stats(order.unit)
                     c1 == [c EXCEPT !.res = res1, !.nb = @ + 1, !.up = up1]
                 IN IF order.unit \notin UnitType
                    THEN \* UnitState(type=None): pydantic rejects the type
                         Raise(c1, "ValidationError")
                    ELSE LET new_unit == UnitState(u_id, order.unit, fac.q, fac.r,
                                                   stats.hp * HPScale, stats.mp, player_id)
                             c2 == [c1 EXCEPT !.units = Append(@, new_unit),
                                              !.up = UpAppend(up1, loc, Len(c.units) + 1)]
                         IN Emit(c2, "BUILD", Hex(fac.q, fac.r),
                                 [unit |-> order.unit, owner |-> player_id])

\* An element of the orders list unpacks into (player_id, order) when it is a
\* pair; anything else makes "for player_id, order in orders" raise ValueError.
IsPair(e) == "player" \in DOMAIN e

\* for player_id, order in orders: if order.type == RESEARCH: _handle_research
RECURSIVE research_loop(_, _, _)
research_loop(c, orders, k) ==
    IF k > Len(orders) \/ c.raised # NoError THEN c
    ELSE IF ~IsPair(orders[k]) THEN Raise(c, "ValueError")
    ELSE research_loop(
            IF orders[k].order.type = RESEARCH
            THEN handle_research(orders[k].player, orders[k].order, c) ELSE c,
            orders, k + 1)

\* for player_id, order in orders: if order.type == BUILD: _handle_build
RECURSIVE build_loop(_, _, _, _)
build_loop(c, orders, k, uu) ==
    IF k > Len(orders) \/ c.raised # NoError THEN c
    ELSE IF ~IsPair(orders[k]) THEN Raise(c, "ValueError")
    ELSE build_loop(
            IF orders[k].order.type = BUILD
            THEN handle_build(orders[k].player, orders[k].order, c, uu) ELSE c,
            orders, k + 1, uu)

(***************************************************************************)
(* Movement.  intentions is the dict uid -> target in insertion order, a   *)
(* list of [uid, target, origin]; bounced_units is a set of uids.  hs is   *)
(* hash() on the unit ids, which Python salts per process.                 *)
(***************************************************************************)
\* units_by_id = {u.id: u for u in units}: the last of the n0 indexed units
\* with the id, 0 when there is none.
UnitById(c, id) ==
    LET ks == {k \in 1..c.n0 : c.units[k].id = id}
    IN IF ks = {} THEN 0 ELSE CHOOSE k \in ks : \A j \in ks : j <= k

\* The filter of lines 117-122 without the test of the owner.
RECURSIVE move_filter_any_owner(_, _, _, _)
move_filter_any_owner(c, orders, k, acc) ==
    IF k > Len(orders) THEN [c |-> c, move_orders |-> acc]
    ELSE IF ~IsPair(orders[k]) THEN [c |-> Raise(c, "ValueError"), move_orders |-> acc]
    ELSE LET o == orders[k].order
         IN move_filter_any_owner(c, orders, k + 1,
                IF o.type = MOVE /\ UnitById(c, o.id) # 0
                THEN Append(acc, o) ELSE acc)

\* The filter of lines 117-122: the MOVE orders naming an indexed unit that
\* the submitter owns.
RECURSIVE move_filter(_, _, _, _)
move_filter(c, orders, k, acc) ==
    IF k > Len(orders) THEN [c |-> c, move_orders |-> acc]
    ELSE IF ~IsPair(orders[k]) THEN [c |-> Raise(c, "ValueError"), move_orders |-> acc]
    ELSE LET o == orders[k].order
         IN move_filter(c, orders, k + 1,
                IF o.type = MOVE /\ UnitById(c, o.id) # 0
                   /\ c.units[UnitById(c, o.id)].owner = orders[k].player
                THEN Append(acc, o) ELSE acc)

IntentIndex(intentions, uid) ==
    IF \E k \in 1..Len(intentions) : intentions[k].uid = uid
    THEN CHOOSE k \in 1..Len(intentions) : intentions[k].uid = uid
    ELSE 0

HasIntent(intentions, uid) == IntentIndex(intentions, uid) # 0
TargetOf(intentions, uid) == intentions[IntentIndex(intentions, uid)].target
OriginOf(intentions, uid) == intentions[IntentIndex(intentions, uid)].origin

\* Lines 237-251.  An order without dest has dest = None, and order.dest.q
\* raises AttributeError.
RECURSIVE collect_intentions(_, _, _, _)
collect_intentions(c, move_orders, k, acc) ==
    IF k > Len(move_orders) THEN [exc |-> NoError, intentions |-> acc]
    ELSE LET order == move_orders[k]
             unit == c.units[UnitById(c, order.id)]
         IN IF order.dest = NoDest THEN [exc |-> "AttributeError", intentions |-> acc]
            ELSE LET target == Hex(order.dest[1], order.dest[2])
                     origin == Hex(unit.q, unit.r)
                     rec == [uid |-> unit.id, target |-> target, origin |-> origin]
                 IN IF hex_distance(Hex(0, 0), target) > MAP_RADIUS
                    THEN collect_intentions(c, move_orders, k + 1, acc)
                    ELSE collect_intentions(c, move_orders, k + 1,
                            IF HasIntent(acc, unit.id)
                            THEN [acc EXCEPT ![IntentIndex(acc, unit.id)] = rec]
                            ELSE Append(acc, rec))

\* The sort key of line 262.
SortKey(c, hs, uid) == (c.units[UnitById(c, uid)].mp * 1000) + Abs(hs[uid])

\* uids[0] after the stable descending sort of the uids that target t, given
\* in insertion order: the largest key, the earliest of equal keys.
Winner(c, hs, intentions, t) ==
    LET ks == {k \in 1..Len(intentions) : intentions[k].target = t}
        best == CHOOSE k \in ks :
                   \A j \in ks :
                      \/ SortKey(c, hs, intentions[k].uid) > SortKey(c, hs, intentions[j].uid)
                      \/ /\ SortKey(c, hs, intentions[k].uid) = SortKey(c, hs, intentions[j].uid)
                         /\ k <= j
    IN intentions[best].uid

\* Phase A: every uid that shares its target and is not the winner.
phase_a(c, hs, intentions) ==
    {intentions[k].uid : k \in
        {k \in 1..Len(intentions) :
            /\ \E j \in 1..Len(intentions) : j # k /\ intentions[j].target = intentions[k].target
            /\ Winner(c, hs, intentions, intentions[k].target) # intentions[k].uid}}

\* Phase B without the test of the owners of line 273.
RECURSIVE phase_b_any_owner(_, _, _, _)
phase_b_any_owner(c, intentions, k, bounced) ==
    IF k > Len(intentions) THEN bounced
    ELSE LET uid == intentions[k].uid
             occupiers == UpGet(c.up, intentions[k].target)
             hits == {i \in 1..Len(occupiers) :
                        LET occ == c.units[occupiers[i]]
                        IN /\ HasIntent(intentions, occ.id)
                           /\ TargetOf(intentions, occ.id) = intentions[k].origin}
         IN IF uid \in bounced THEN phase_b_any_owner(c, intentions, k + 1, bounced)
            ELSE phase_b_any_owner(c, intentions, k + 1,
                    IF hits = {} THEN bounced
                    ELSE bounced \cup {uid} \cup {c.units[occupiers[i]].id : i \in hits})

\* Phase B, from intention k on.
RECURSIVE phase_b(_, _, _, _)
phase_b(c, intentions, k, bounced) ==
    IF k > Len(intentions) THEN bounced
    ELSE LET uid == intentions[k].uid
             occupiers == UpGet(c.up, intentions[k].target)
             hits == {i \in 1..Len(occupiers) :
                        LET occ == c.units[occupiers[i]]
                        IN /\ HasIntent(intentions, occ.id)
                           /\ TargetOf(intentions, occ.id) = intentions[k].origin
                           /\ occ.owner # c.units[UnitById(c, uid)].owner}
         IN IF uid \in bounced THEN phase_b(c, intentions, k + 1, bounced)
            ELSE phase_b(c, intentions, k + 1,
                    IF hits = {} THEN bounced
                    ELSE bounced \cup {uid} \cup {c.units[occupiers[i]].id : i \in hits})

\* Blocked without the stack tests of lines 292 and 294.
Blocked_no_cap(c, intentions, uid, bounced) ==
    LET occupiers == UpGet(c.up, TargetOf(intentions, uid))
    IN \E i \in 1..Len(occupiers) :
          c.units[occupiers[i]].owner # c.units[UnitById(c, uid)].owner

\* Blocked without the enemy test of line 288.
Blocked_no_enemy(c, intentions, uid, bounced) ==
    LET occupiers == UpGet(c.up, TargetOf(intentions, uid))
    IN \E i \in 1..Len(occupiers) :
          LET occ == c.units[occupiers[i]]
          IN IF occ.owner # c.units[UnitById(c, uid)].owner THEN FALSE
             ELSE IF ~HasIntent(intentions, occ.id) THEN Len(occupiers) >= STACK_CAP
             ELSE IF occ.id \in bounced THEN Len(occupiers) >= STACK_CAP
             ELSE FALSE

\* Blocked with the enemy test of line 288 passing an enemy that moves away.
Blocked_enemy_leaving(c, intentions, uid, bounced) ==
    LET occupiers == UpGet(c.up, TargetOf(intentions, uid))
    IN \E i \in 1..Len(occupiers) :
          LET occ == c.units[occupiers[i]]
          IN IF occ.owner # c.units[UnitById(c, uid)].owner
             THEN ~HasIntent(intentions, occ.id) \/ occ.id \in bounced
             ELSE IF ~HasIntent(intentions, occ.id) THEN Len(occupiers) >= STACK_CAP
             ELSE IF occ.id \in bounced THEN Len(occupiers) >= STACK_CAP
             ELSE FALSE

\* Lines 284-294: is the intention of uid blocked, given the bounced set?
Blocked(c, intentions, uid, bounced) ==
    LET occupiers == UpGet(c.up, TargetOf(intentions, uid))
    IN \E i \in 1..Len(occupiers) :
          LET occ == c.units[occupiers[i]]
          IN IF occ.owner # c.units[UnitById(c, uid)].owner THEN TRUE
             ELSE IF ~HasIntent(intentions, occ.id) THEN Len(occupiers) >= STACK_CAP
             ELSE IF occ.id \in bounced THEN Len(occupiers) >= STACK_CAP
             ELSE FALSE

\* One pass of the for loop of Phase C from intention k on: [bounced, stable].
RECURSIVE phase_c_pass(_, _, _, _, _)
phase_c_pass(c, intentions, k, bounced, stable) ==
    IF k > Len(intentions) THEN [bounced |-> bounced, stable |-> stable]
    ELSE LET uid == intentions[k].uid
         IN IF uid \in bounced THEN phase_c_pass(c, intentions, k + 1, bounced, stable)
            ELSE IF Blocked(c, intentions, uid, bounced)
                 THEN phase_c_pass(c, intentions, k + 1, bounced \cup {uid}, FALSE)
                 ELSE phase_c_pass(c, intentions, k + 1, bounced, stable)

\* while not stable, with one more pass after the pass that changes nothing.
RECURSIVE phase_c_extra_pass(_, _, _, _)
phase_c_extra_pass(c, intentions, bounced, passes) ==
    LET p == phase_c_pass(c, intentions, 1, bounced, TRUE)
    IN IF p.stable THEN [bounced |-> p.bounced, passes |-> passes + 2]
       ELSE phase_c_extra_pass(c, intentions, p.bounced, passes + 1)

\* while not stable: [bounced, passes] when the loop ends.
RECURSIVE phase_c(_, _, _, _)
phase_c(c, intentions, bounced, passes) ==
    LET p == phase_c_pass(c, intentions, 1, bounced, TRUE)
    IN IF p.stable THEN [bounced |-> p.bounced, passes |-> passes + 1]
       ELSE phase_c(c, intentions, p.bounced, passes + 1)

\* The bounced set after the three phases.
BouncedUnits(c, hs, intentions) ==
    phase_c(c, intentions, phase_b(c, intentions, 1, phase_a(c, hs, intentions)), 0).bounced

\* Variant of execute_moves: a move costs no MP.
RECURSIVE execute_moves_free(_, _, _, _)
execute_moves_free(c, intentions, k, bounced) ==
    IF k > Len(intentions) THEN c
    ELSE IF intentions[k].uid \in bounced THEN execute_moves_free(c, intentions, k + 1, bounced)
    ELSE LET i == UnitById(c, intentions[k].uid)
         IN execute_moves_free(
               [c EXCEPT !.units[i].q = intentions[k].target[1],
                         !.units[i].r = intentions[k].target[2]],
               intentions, k + 1, bounced)

\* Execute, from intention k on.
RECURSIVE execute_moves(_, _, _, _)
execute_moves(c, intentions, k, bounced) ==
    IF k > Len(intentions) THEN c
    ELSE IF intentions[k].uid \in bounced THEN execute_moves(c, intentions, k + 1, bounced)
    ELSE LET i == UnitById(c, intentions[k].uid)
         IN execute_moves(
               [c EXCEPT !.units[i].q = intentions[k].target[1],
                         !.units[i].r = intentions[k].target[2],
                         !.units[i].mp = Max(0, @ - 1)],
               intentions, k + 1, bounced)

\* _resolve_movement
resolve_movement(c, move_orders, hs) ==
    LET col == collect_intentions(c, move_orders, 1, << >>)
    IN IF col.exc # NoError THEN Raise(c, col.exc)
       ELSE execute_moves(c, col.intentions, 1, BouncedUnits(c, hs, col.intentions))

(***************************************************************************)
(* Combat and victory                                                      *)
(***************************************************************************)
\* raw_dmg of one attacker: base_atk * (hp / max_hp).
RawDamage(c, a) ==
    LET atk == c.units[a]
    IN (get_base_atk(atk.type, UpgGet(c.upg, atk.owner)) * atk.hp)
          \div (10 * get_unit_stats(atk.type).hp)

RECURSIVE SumRaw(_, _, _, _)
SumRaw(c, attackers, k, owner_def) ==
    IF k > Len(attackers) THEN 0
    ELSE (IF c.units[attackers[k]].owner # owner_def THEN RawDamage(c, attackers[k]) ELSE 0)
         + SumRaw(c, attackers, k + 1, owner_def)

\* total_incoming_raw of the stack on hex_loc, over neighbours n..6.
RECURSIVE TotalIncomingRaw(_, _, _, _)
TotalIncomingRaw(c, hex_loc, owner_def, n) ==
    IF n > 6 THEN 0
    ELSE SumRaw(c, UpGet(c.up, hex_neighbors(hex_loc)[n]), 1, owner_def)
         + TotalIncomingRaw(c, hex_loc, owner_def, n + 1)

\* defenders.sort(key=lambda u: u.hp) is stable and ascending: unit i goes
\* after the units of equal or smaller hp listed before it.
RECURSIVE InsertByHp(_, _, _)
InsertByHp(c, sorted, i) ==
    IF sorted = << >> THEN << i >>
    ELSE IF c.units[i].hp < c.units[Head(sorted)].hp THEN << i >> \o sorted
    ELSE << Head(sorted) >> \o InsertByHp(c, Tail(sorted), i)

RECURSIVE SortByHp(_, _)
SortByHp(c, defenders) ==
    IF defenders = << >> THEN << >>
    ELSE InsertByHp(c, SortByHp(c, SubSeq(defenders, 1, Len(defenders) - 1)),
                    defenders[Len(defenders)])

\* 1 - mitigation is OneMinusNum / OneMinusDen, both in tenths.
OneMinusNum == 10 * DEF_CONSTANT
OneMinusDen(c, unit, def_upgrades) == get_base_def(unit.type, def_upgrades) + 10 * DEF_CONSTANT

\* distribute_damage that credits a unit that falls with its effective HP.
RECURSIVE distribute_damage_overkill(_, _, _, _, _, _)
distribute_damage_overkill(c, hex_loc, defenders, k, def_upgrades, x) ==
    IF k > Len(defenders) \/ x.rem <= 0 \/ x.c.raised # NoError THEN x
    ELSE LET unit == c.units[defenders[k]]
             den == OneMinusDen(c, unit, def_upgrades)
             e_hp == (unit.hp * den) \div OneMinusNum
         IN IF x.rem >= e_hp
            THEN distribute_damage_overkill(c, hex_loc, defenders, k + 1, def_upgrades,
                    [rem |-> x.rem - e_hp,
                     pd |-> (unit.id :> e_hp) @@ x.pd,
                     c |-> Emit(x.c, "COMBAT", hex_loc,
                               [attacker |-> "Enemies", defender |-> unit.owner,
                                damage_in |-> e_hp, casualties |-> << unit.id >>])])
            ELSE distribute_damage_overkill(c, hex_loc, defenders, k + 1, def_upgrades,
                    [rem |-> 0,
                     pd |-> (unit.id :> ((x.rem * OneMinusNum) \div den)) @@ x.pd,
                     c |-> x.c])

\* distribute_damage that goes on with the same remaining_dmg after a unit
\* that does not fall.
RECURSIVE distribute_damage_spread(_, _, _, _, _, _)
distribute_damage_spread(c, hex_loc, defenders, k, def_upgrades, x) ==
    IF k > Len(defenders) \/ x.rem <= 0 \/ x.c.raised # NoError THEN x
    ELSE LET unit == c.units[defenders[k]]
             den == OneMinusDen(c, unit, def_upgrades)
             e_hp == (unit.hp * den) \div OneMinusNum
         IN IF x.rem >= e_hp
            THEN distribute_damage_spread(c, hex_loc, defenders, k + 1, def_upgrades,
                    [rem |-> x.rem - e_hp,
                     pd |-> (unit.id :> unit.hp) @@ x.pd,
                     c |-> Emit(x.c, "COMBAT", hex_loc,
                               [attacker |-> "Enemies", defender |-> unit.owner,
                                damage_in |-> e_hp, casualties |-> << unit.id >>])])
            ELSE distribute_damage_spread(c, hex_loc, defenders, k + 1, def_upgrades,
                    [rem |-> x.rem,
                     pd |-> (unit.id :> ((x.rem * OneMinusNum) \div den)) @@ x.pd,
                     c |-> x.c])

\* Lines 344-364 over the sorted defenders from k on; x carries pending_damage
\* (pd), the events and remaining_dmg (rem).
RECURSIVE distribute_damage(_, _, _, _, _, _)
distribute_damage(c, hex_loc, defenders, k, def_upgrades, x) ==
    IF k > Len(defenders) \/ x.rem <= 0 \/ x.c.raised # NoError THEN x
    ELSE LET unit == c.units[defenders[k]]
             den == OneMinusDen(c, unit, def_upgrades)
             e_hp == (unit.hp * den) \div OneMinusNum
         IN IF x.rem >= e_hp
            THEN distribute_damage(c, hex_loc, defenders, k + 1, def_upgrades,
                    [rem |-> x.rem - e_hp,
                     pd |-> (unit.id :> unit.hp) @@ x.pd,
                     c |-> Emit(x.c, "COMBAT", hex_loc,
                               [attacker |-> "Enemies", defender |-> unit.owner,
                                damage_in |-> e_hp, casualties |-> << unit.id >>])])
            ELSE distribute_damage(c, hex_loc, defenders, k + 1, def_upgrades,
                    [rem |-> 0,
                     pd |-> (unit.id :> ((x.rem * OneMinusNum) \div den)) @@ x.pd,
                     c |-> x.c])

\* Variant of the loop over active_hexes: each hex reads the HP that the
\* damage credited by the hexes before it leaves.
RECURSIVE combat_hexes_sequential(_, _, _)
combat_hexes_sequential(c, k, x) ==
    IF k > Len(c.up) \/ x.c.raised # NoError THEN x
    ELSE LET r == [c EXCEPT !.units =
                      [i \in 1..Len(c.units) |->
                          [c.units[i] EXCEPT !.hp =
                              IF c.units[i].id \in DOMAIN x.pd
                              THEN @ - x.pd[c.units[i].id] ELSE @]]]
             defenders == c.up[k].occ
         IN IF defenders = << >> THEN combat_hexes_sequential(c, k + 1, x)
            ELSE LET hex_loc == c.up[k].hex
                     owner_def == c.units[defenders[1]].owner
                     def_upgrades == UpgGet(c.upg, owner_def)
                     total_incoming_raw == TotalIncomingRaw(r, hex_loc, owner_def, 1)
                 IN IF total_incoming_raw <= 0 THEN combat_hexes_sequential(c, k + 1, x)
                    ELSE combat_hexes_sequential(c, k + 1,
                            distribute_damage(c, hex_loc, SortByHp(c, defenders), 1,
                                def_upgrades, [x EXCEPT !.rem = total_incoming_raw]))

\* The loop over active_hexes, from entry k of unit_positions on.  The hexes
\* and the HP read are those of c, which the loop does not change.
RECURSIVE combat_hexes(_, _, _)
combat_hexes(c, k, x) ==
    IF k > Len(c.up) \/ x.c.raised # NoError THEN x
    ELSE LET defenders == c.up[k].occ
         IN IF defenders = << >> THEN combat_hexes(c, k + 1, x)
            ELSE LET hex_loc == c.up[k].hex
                     owner_def == c.units[defenders[1]].owner
                     def_upgrades == UpgGet(c.upg, owner_def)
                     total_incoming_raw == TotalIncomingRaw(c, hex_loc, owner_def, 1)
                 IN IF total_incoming_raw <= 0 THEN combat_hexes(c, k + 1, x)
                    ELSE combat_hexes(c, k + 1,
                            distribute_damage(c, hex_loc, SortByHp(c, defenders), 1,
                                def_upgrades, [x EXCEPT !.rem = total_incoming_raw]))

\* Apply Damage that keeps every unit with HP above 0.
RECURSIVE apply_damage_above_zero(_, _, _)
apply_damage_above_zero(units, pd, i) ==
    IF i > Len(units) THEN << >>
    ELSE LET unit == units[i]
             hp1 == IF unit.id \in DOMAIN pd THEN unit.hp - pd[unit.id] ELSE unit.hp
         IN (IF hp1 > 0 THEN << [unit EXCEPT !.hp = hp1] >> ELSE << >>)
            \o apply_damage_above_zero(units, pd, i + 1)

\* Apply Damage (lines 367-374), from unit i on.
RECURSIVE apply_damage(_, _, _)
apply_damage(units, pd, i) ==
    IF i > Len(units) THEN << >>
    ELSE LET unit == units[i]
             hp1 == IF unit.id \in DOMAIN pd THEN unit.hp - pd[unit.id] ELSE unit.hp
         IN (IF 2 * hp1 > HPScale THEN << [unit EXCEPT !.hp = hp1] >> ELSE << >>)
            \o apply_damage(units, pd, i + 1)

\* pending_damage = defaultdict(float), empty.
NoDamage == [id \in {} |-> 0]

\* pending_damage of the combat phase of c.
PendingDamage(c) == combat_hexes(c, 1, [rem |-> 0, pd |-> NoDamage, c |-> c]).pd

\* _resolve_combat
resolve_combat(c) ==
    LET x == combat_hexes(c, 1, [rem |-> 0, pd |-> NoDamage, c |-> c])
    IN IF x.c.raised # NoError THEN x.c
       ELSE [x.c EXCEPT !.units = apply_damage(c.units, x.pd, 1)]

\* active_chiefs of _check_victory.
ActiveChiefs(units) == {units[i].owner : i \in {i \in 1..Len(units) : units[i].type = CHIEF}}

\* _check_victory without the branch of lines 382-384.
check_victory_no_draw(c) ==
    LET active_chiefs == ActiveChiefs(c.units)
    IN IF Cardinality(active_chiefs) = 1
       THEN Emit([c EXCEPT !.game_status = FINISHED], "ELIMINATION", Hex(0, 0),
                 [res |-> "WIN", winner |-> CHOOSE w \in active_chiefs : TRUE])
       ELSE c

\* _check_victory
check_victory(c) ==
    LET active_chiefs == ActiveChiefs(c.units)
    IN IF active_chiefs = {}
       THEN Emit([c EXCEPT !.game_status = FINISHED], "ELIMINATION", Hex(0, 0),
                 [res |-> "DRAW"])
       ELSE IF Cardinality(active_chiefs) = 1
            THEN Emit([c EXCEPT !.game_status = FINISHED], "ELIMINATION", Hex(0, 0),
                      [res |-> "WIN", winner |-> CHOOSE w \in active_chiefs : TRUE])
            ELSE c

(***************************************************************************)
(* process_tick                                                            *)
(***************************************************************************)
\* The GameState fields the engine uses (state.you.units, state.you.facilities).
\* you.resources is a placeholder the engine never reads or writes.
GameState(tick, game_status, units, facilities, events) ==
    [tick |-> tick, game_status |-> game_status, resources |-> Resources,
     units |-> units, facilities |-> facilities, events |-> events]

StateOf(c) ==
    [GameState(c.tick, c.game_status, c.units, c.facilities, c.events)
        EXCEPT !.resources = c.resources]

\* tick_begin with an upgrades store that starts empty in every call.
tick_begin_fresh_upgrades(state, res, upg) ==
    [tick |-> state.tick + 1, game_status |-> state.game_status,
     resources |-> state.resources, units |-> state.units,
     facilities |-> state.facilities, events |-> << >>,
     res |-> res, upg |-> [p \in {} |-> << >>], up |-> << >>, n0 |-> 0,
     raised |-> NoError, nb |-> 0]

\* tick_begin that keeps the events of the previous tick.
tick_begin_stale_events(state, res, upg) ==
    [tick |-> state.tick + 1, game_status |-> state.game_status,
     resources |-> state.resources, units |-> state.units,
     facilities |-> state.facilities, events |-> state.events,
     res |-> res, upg |-> upg, up |-> << >>, n0 |-> 0, raised |-> NoError, nb |-> 0]

\* Lines 82-84: next_state, with the stores the call updates in place.
tick_begin(state, res, upg) ==
    [tick |-> state.tick + 1, game_status |-> state.game_status,
     resources |-> state.resources, units |-> state.units,
     facilities |-> state.facilities, events |-> << >>,
     res |-> res, upg |-> upg, up |-> << >>, n0 |-> 0, raised |-> NoError, nb |-> 0]

\* Lines 86-95: upkeep, then the indexes.
phase_upkeep_index(c) ==
    LET c1 == reset_mp_and_upkeep(c)
    IN [c1 EXCEPT !.n0 = Len(c1.units), !.up = IndexPositions(c1.units, 1, << >>)]

\* Lines 99-102.
phase_research(c, orders) == research_loop(c, orders, 1)

\* Lines 104-108.
phase_build(c, orders, uu) == build_loop(c, orders, 1, uu)

\* Lines 110-113.
phase_research_again(c, orders) == research_loop(c, orders, 1)

\* Lines 115-124.
phase_movement(c, orders, hs) ==
    IF c.raised # NoError THEN c
    ELSE LET f == move_filter(c, orders, 1, << >>)
         IN IF f.c.raised # NoError THEN f.c
            ELSE resolve_movement(c, f.move_orders, hs)

\* Lines 126-127.
phase_combat(c) == IF c.raised # NoError THEN c ELSE resolve_combat(c)

\* Lines 129-130.
phase_victory(c) == IF c.raised # NoError THEN c ELSE check_victory(c)

\* process_tick with the BUILD loop ahead of the first RESEARCH loop.
process_tick_build_first(state, orders, res, upg, hs, uu) ==
    phase_victory(
      phase_combat(
        phase_movement(
          phase_research_again(
            phase_research(
              phase_build(
                phase_upkeep_index(tick_begin(state, res, upg)),
                orders, uu),
              orders),
            orders),
          orders, hs)))

\* The context when process_tick(state, orders) returns or raises.
process_tick(state, orders, res, upg, hs, uu) ==
    phase_victory(
      phase_combat(
        phase_movement(
          phase_research_again(
            phase_build(
              phase_research(
                phase_upkeep_index(tick_begin(state, res, upg)),
                orders),
              orders, uu),
            orders),
          orders, hs)))

(***************************************************************************)
(* shared/hex_math.py: range and area                                      *)
(***************************************************************************)
\* The operators class Hex defines (lines 24-31).
HexMethods == {"__add__", "__sub__", "__repr__"}

\* range(a, b) as a sequence.
Range(a, b) == [k \in 1..Max(0, b - a) |-> a + k - 1]

\* What iterating a generator to its end gives: the hexes yielded, and the
\* exception that ended it if one did.
Yielded(hexes, exc) == [yielded |-> hexes, raised |-> exc]

\* Lines 126-131: the inner loop of hex_spiral for one q.
spiral_column(center, radius, q) ==
    LET r1 == Max(-radius, -q - radius)
        r2 == Min(radius, -q + radius)
        rs == Range(r1, r2 + 1)
    IN [k \in 1..Len(rs) |-> HexAdd(center, Hex(q, rs[k]))]

RECURSIVE spiral_from(_, _, _, _)
spiral_from(center, radius, qs, k) ==
    IF k > Len(qs) THEN << >>
    ELSE spiral_column(center, radius, qs[k]) \o spiral_from(center, radius, qs, k + 1)

\* hex_spiral(center, radius)
hex_spiral(center, radius) ==
    Yielded(spiral_from(center, radius, Range(-radius, radius + 1), 1), NoError)

\* Lines 141-144: the walk around the ring from a corner, n hexes yielded so far.
RECURSIVE ring_walk(_, _, _, _)
ring_walk(current, radius, n, out) ==
    IF n = 6 * radius THEN out
    ELSE ring_walk(HexAdd(current, HEX_DIRECTIONS[(n \div radius) + 1]), radius, n + 1,
                   Append(out, current))

\* hex_ring(center, radius).  Line 140 evaluates HEX_DIRECTIONS[4] * radius
\* before anything is yielded: Hex defines no __mul__ and int.__rmul__ does
\* not take a Hex, so the expression raises TypeError.
hex_ring(center, radius) ==
    IF radius = 0 THEN Yielded(<< center >>, NoError)
    ELSE IF "__mul__" \notin HexMethods THEN Yielded(<< >>, "TypeError")
    ELSE LET corner == Hex(HEX_DIRECTIONS[5][1] * radius, HEX_DIRECTIONS[5][2] * radius)
         IN Yielded(ring_walk(HexAdd(center, corner), radius, 0, << >>), NoError)

(***************************************************************************)
(* Bounds and inputs of the engine specification                           *)
(***************************************************************************)
\* Orders in one batch.
MaxOrders == 2
\* process_tick calls in one behaviour.
MaxCalls == 2

Order(type, id, dest, fac_id, unit, tech_id) ==
    [type |-> type, id |-> id, dest |-> dest, fac_id |-> fac_id, unit |-> unit,
     tech_id |-> tech_id]

MoveOrder(id, dest) == Order(MOVE, id, dest, None, None, None)
BuildOrder(fac_id, unit) == Order(BUILD, None, NoDest, fac_id, unit, None)
ResearchOrder(tech_id) == Order(RESEARCH, None, NoDest, None, None, tech_id)

\* An element of the list process_tick is given: (player_id, order).
Tagged(player_id, order) == [player |-> player_id, order |-> order]

Red == "p_red"
Blue == "p_blue"
Observer == "p_observer"

LightInfantry(id, q, r, owner) ==
    UnitState(id, LIGHT_INFANTRY, q, r, 60 * HPScale, 2, owner)

\* The units and facilities of initialize_dynamic.
DynamicUnits ==
    << UnitState("u_red_1", CHIEF, -3, -3, 150 * HPScale, 1, Red),
       UnitState("u_blue_1", CHIEF, 3, 3, 150 * HPScale, 1, Blue) >>
DynamicFacilities ==
    << FacilityState("f_red_1", -3, -3, Red), FacilityState("f_blue_1", 3, 3, Blue) >>

\* initialize_dynamic(resources)
initialize_dynamic(resources) ==
    [state |-> GameState(0, ACTIVE, DynamicUnits, DynamicFacilities, << >>),
     res |-> (Red :> resources) @@ (Blue :> resources),
     upg |-> [p \in {} |-> << >>]]

Scenarios == {"dynamic", "contest", "stack", "upkeep", "swap", "idle"}

\* The ids of the units stacked on one hex in the scenario "stack".
StackIds == << "u_s1", "u_s2", "u_s3", "u_s4", "u_s5", "u_s6", "u_s7", "u_s8", "u_s9",
              "u_s10", "u_s11" >>

\* The well-formed match states the calls start from.
ScenarioStates(scn) ==
    CASE scn = "dynamic" ->
           {initialize_dynamic(r) : r \in {[M |-> 100, F |-> 500, I |-> 210],
                                           [M |-> 1000, F |-> 500, I |-> 0]}}
      [] scn = "contest" ->
           {[state |-> GameState(0, ACTIVE,
                         DynamicUnits \o
                         << LightInfantry("u_a", 0, 0, Red),
                            UnitState("u_b", SCOUT, 1, -1, 40 * HPScale, 3, Red),
                            LightInfantry("u_x", 1, 1, Blue) >>,
                         DynamicFacilities, << >>),
             res |-> (Red :> [M |-> 1000, F |-> 500, I |-> 0])
                     @@ (Blue :> [M |-> 1000, F |-> 500, I |-> 0]),
             upg |-> [p \in {} |-> << >>]]}
      [] scn = "stack" ->
           {[state |-> GameState(0, ACTIVE,
                         DynamicUnits \o
                         [k \in 1..(STACK_CAP - 1) |->
                             IF k = 2
                             THEN UnitState(StackIds[k], LIGHT_INFANTRY, 0, 0,
                                            30 * HPScale, 2, Red)
                             ELSE LightInfantry(StackIds[k], 0, 0, Red)] \o
                         << LightInfantry("u_m1", 1, 0, Red),
                            LightInfantry("u_m2", 0, 1, Red),
                            UnitState("u_x", SCOUT, 0, -1, 40 * HPScale, 3, Blue) >>,
                         DynamicFacilities \o << FacilityState("f_red_2", 0, 0, Red) >>,
                         << >>),
             res |-> (Red :> [M |-> 50, F |-> 0, I |-> 0])
                     @@ (Blue :> [M |-> 0, F |-> 0, I |-> 0]),
             upg |-> [p \in {} |-> << >>]]}
      [] scn = "upkeep" ->
           {[state |-> GameState(UPKEEP_PERIOD - 1, ACTIVE,
                         << UnitState("u_red_1", CHIEF, 1, 0, hp, 1, Red),
                            UnitState("u_blue_1", CHIEF, -2, -3, bhp, 1, Blue),
                            UnitState("u_t", ARMORED, 0, 0, 120 * HPScale, 1, Blue),
                            UnitState("u_k", MECHANIZED, -3, -3, khp, 2, Red) >>,
                         DynamicFacilities, << >>),
             res |-> (Red :> [M |-> 150, F |-> 44, I |-> 400])
                     @@ (Blue :> [M |-> 0, F |-> 2, I |-> 0]),
             upg |-> [p \in {} |-> << >>]] :
                hp \in {1 * HPScale, 150 * HPScale}, bhp \in {1 * HPScale, 150 * HPScale},
                khp \in {5 * HPScale, 90 * HPScale}}
      [] scn = "swap" ->
           {[state |-> GameState(0, ACTIVE,
                         DynamicUnits \o
                         << LightInfantry("u_a", 0, 0, Red),
                            UnitState("u_b", SCOUT, 1, -1, 40 * HPScale, 3, Red),
                            LightInfantry("u_x", 0, 1, Blue) >>,
                         DynamicFacilities, << >>),
             res |-> (Red :> [M |-> 0, F |-> 0, I |-> 0])
                     @@ (Blue :> [M |-> 0, F |-> 0, I |-> 0]),
             upg |-> [p \in {} |-> << >>]]}
      [] scn = "idle" ->
           {[state |-> GameState(IF starved THEN UPKEEP_PERIOD - 1 ELSE 0, ACTIVE,
                         (IF chiefs THEN DynamicUnits ELSE << >>) \o
                         << LightInfantry("u_a", 0, 0, Red),
                            LightInfantry("u_x", 5, 5, Blue) >> \o
                         (IF starved
                          THEN << UnitState("u_t", ARMORED, 5, 4, 120 * HPScale, 1, Blue) >>
                          ELSE << >>),
                         DynamicFacilities, << >>),
             res |-> (Red :> [M |-> 0, F |-> 0, I |-> 0])
                     @@ (Blue :> [M |-> 0, F |-> 2, I |-> 0]),
             upg |-> [p \in {} |-> << >>]] :
                chiefs \in BOOLEAN, starved \in BOOLEAN}

\* The orders submitted in each scenario, with their submitters.
OrderUniverse(scn) ==
    CASE scn = "dynamic" ->
           {Tagged(Red, BuildOrder("f_red_1", LIGHT_INFANTRY)),
            Tagged(Red, BuildOrder("f_red_1", SPECIAL_FORCES)),
            Tagged(Red, BuildOrder("f_red_1", CHIEF)),
            Tagged(Red, BuildOrder("f_red_1", ARMORED)),
            Tagged(Red, BuildOrder("f_blue_1", LIGHT_INFANTRY)),
            Tagged(Red, BuildOrder("f_none", LIGHT_INFANTRY)),
            Tagged(Red, ResearchOrder("INFANTRY_TIER_1")),
            Tagged(Observer, ResearchOrder("INFANTRY_TIER_1")),
            Tagged(Red, ResearchOrder("ARMOR_TIER_1")),
            Tagged(Red, MoveOrder("u_red_1", Hex(-2, -3)))}
      [] scn = "contest" ->
           {Tagged(Red, MoveOrder("u_a", Hex(1, 0))),
            Tagged(Red, MoveOrder("u_b", Hex(1, 0))),
            Tagged(Blue, MoveOrder("u_x", Hex(1, 0))),
            Tagged(Red, MoveOrder("u_a", Hex(1, 1))),
            Tagged(Red, MoveOrder("u_a", Hex(MAP_RADIUS + 1, 0))),
            Tagged(Red, MoveOrder("u_a", NoDest)),
            Tagged(Blue, MoveOrder("u_a", Hex(1, 0))),
            Tagged(Red, MoveOrder("u_none", Hex(1, 0)))}
      [] scn = "stack" ->
           {Tagged(Red, MoveOrder("u_m1", Hex(0, 0))),
            Tagged(Red, MoveOrder("u_m2", Hex(0, 0))),
            Tagged(Red, MoveOrder(StackIds[1], Hex(-1, 0))),
            Tagged(Red, MoveOrder(StackIds[1], Hex(0, 1))),
            Tagged(Red, BuildOrder("f_red_2", LIGHT_INFANTRY)),
            Tagged(Red, BuildOrder("f_red_2", ARMORED))}
      [] scn = "upkeep" ->
           {Tagged(Red, ResearchOrder("INFANTRY_TIER_1")),
            Tagged(Red, ResearchOrder("ARMOR_TIER_1")),
            Tagged(Red, MoveOrder("u_red_1", Hex(2, 0))),
            Tagged(Blue, MoveOrder("u_t", Hex(1, 0))),
            Tagged(Blue, MoveOrder("u_t", Hex(0, -1))),
            Tagged(Blue, ResearchOrder("INFANTRY_TIER_1")),
            Tagged(Red, BuildOrder("f_red_1", ARMORED))}
      [] scn = "swap" ->
           {Tagged(Red, MoveOrder("u_a", Hex(1, -1))),
            Tagged(Red, MoveOrder("u_b", Hex(0, 0))),
            Tagged(Red, MoveOrder("u_a", Hex(0, 1))),
            Tagged(Blue, MoveOrder("u_x", Hex(0, 0))),
            Tagged(Red, MoveOrder("u_b", Hex(3, 0)))}
      [] scn = "idle" ->
           {Tagged(Red, MoveOrder("u_a", Hex(1, 0))),
            Tagged(Blue, MoveOrder("u_x", Hex(4, 5)))}

\* The batches: every list of at most MaxOrders orders of the scenario.
OrderLists(scn) == UNION {[1..n -> OrderUniverse(scn)] : n \in 0..MaxOrders}

\* uuid.uuid4().hex[:6]: the ids a build may draw.
UuidPool == {"u_1f3a9c", "u_2b4d6e"}

\* hash(str) is salted per process: the salts, and |hash(id)| under each.
\* Values of a 61-bit hash lie far apart, here by more than any MP * 1000.
HashSalts == {1, 2}
IdRank(id) == CASE id \in {"u_a", "u_m1"} -> 1
                [] id \in {"u_b", "u_m2"} -> 2
                [] id = "u_x" -> 3
                [] OTHER -> 4
PyHash(salt, id) == IF salt = 1 THEN 5000 * IdRank(id) ELSE 5000 * (5 - IdRank(id))
AllUnitIds == {"u_a", "u_b", "u_x", "u_m1", "u_m2", "u_red_1", "u_blue_1", "u_t", "u_k"}
              \cup {StackIds[k] : k \in 1..Len(StackIds)} \cup UuidPool
HashFn(salt) == [id \in AllUnitIds |-> PyHash(salt, id)]

(***************************************************************************)
(* The engine specification: one GameEngine whose current_state is         *)
(* advanced by process_tick, as in lines 74-75 of game_ticker.             *)
(***************************************************************************)
VARIABLES
    current_state,      \* engine.current_state
    player_resources,   \* engine.player_resources
    player_upgrades,    \* engine.player_upgrades
    hash_salt,          \* the salt of hash() in this process
    scn,                \* the scenario the behaviour started from
    crashed,            \* an exception left process_tick
    ncalls,             \* process_tick calls made so far
    call,               \* the process_tick call of this cycle: inputs and outcome
    \* server/main.py
    game_params,        \* GAME_PARAMS
    heap,               \* the GameState objects of the server process
    games,              \* games: match_id -> engine
    game_order,         \* the keys of games in insertion order
    order_buffers,      \* order_buffers: match_id -> list
    match_auth_tables,  \* match_auth_tables: match_id -> {token -> player_id}
    ticker,             \* the game_ticker task: its position and locals
    reader,             \* a get_state request in flight: its position and locals
    reply,              \* the response of the last request answered
    whole,              \* match_id -> the states the match has been in between ticks
    buffer_sn,          \* match_id -> the serial numbers of the orders in the buffer
    ledger,             \* serial number -> the match of an accepted order and the
                        \* loops of process_tick calls that iterated over it
    \* shared/hex_math.py
    hex_center,         \* the center a range function is called with
    hex_radius,         \* the radius it is called with
    hex_result          \* the function called and what iterating its result gave

evars == << current_state, player_resources, player_upgrades, scn, crashed, ncalls, call >>

svars == << game_params, heap, games, game_order, order_buffers, match_auth_tables,
            ticker, reader, reply, whole, buffer_sn, ledger >>

hvars == << hex_center, hex_radius, hex_result >>

vars == << evars, hash_salt, svars, hvars >>

\* No range function has been called.
NoResult == [fn |-> "none"]
HexUnused ==
    /\ hex_center = Hex(0, 0)
    /\ hex_radius = 0
    /\ hex_result = NoResult

NoEntries == [x \in {} |-> << >>]
NoCtx == << >>
NoReply == [op |-> "none"]

\* GAME_PARAMS when parameters.json cannot be loaded (lines 44-49).
FallbackParams == [resources |-> [M |-> 1000, F |-> 500, I |-> 0], initial_units |-> << >>]

\* A server process in which no request has been made.
ServerFresh ==
    /\ heap = << >>
    /\ games = NoEntries
    /\ game_order = << >>
    /\ order_buffers = NoEntries
    /\ match_auth_tables = NoEntries
    /\ ticker = [pc |-> "sleep", i |-> 0, size |-> 0, m |-> None, next_state |-> 0,
                 c |-> NoCtx, calls |-> 0, error |-> NoError]
    /\ reader = [pc |-> "idle"]
    /\ reply = NoReply
    /\ whole = NoEntries
    /\ buffer_sn = NoEntries
    /\ ledger = << >>

\* The objects of the process are the elements of objs; a reference is an
\* index into it.
\* A copy that is the same object as the original.
same_object(objs, ref) == [heap |-> objs, ref |-> ref]

\* Line 82, next_state = deepcopy(state): a new object that equals the one
\* ref names.
deepcopy(objs, ref) == [heap |-> Append(objs, objs[ref]), ref |-> Len(objs) + 1]

NoCall ==
    [made |-> FALSE, state |-> << >>, res |-> << >>, upg |-> << >>, orders |-> << >>,
     raised |-> NoError, arg |-> << >>, ret |-> << >>]

Init ==
    /\ scn \in Scenarios
    /\ \E s \in ScenarioStates(scn) :
          /\ current_state = s.state
          /\ player_resources = s.res
          /\ player_upgrades = s.upg
    /\ hash_salt \in HashSalts
    /\ crashed = FALSE
    /\ ncalls = 0
    /\ call = NoCall
    /\ game_params = FallbackParams
    /\ ServerFresh
    /\ HexUnused

\* The BUILD orders of a batch: each can make one uuid4 draw.
NumBuilds(orders) ==
    Cardinality({k \in 1..Len(orders) : IsPair(orders[k]) /\ orders[k].order.type = BUILD})
UuidDraws(orders) == [1..NumBuilds(orders) -> UuidPool]

\* What one call leaves behind: the object state names (arg), the object
\* next_state names (ret), the stores, and the exception raised if any.
CallOutcome(state, orders, res, upg, salt, uu) ==
    LET cp == deepcopy(<< state >>, 1)
        c == process_tick(cp.heap[cp.ref], orders, res, upg, HashFn(salt), uu)
        h == [cp.heap EXCEPT ![cp.ref] = StateOf(c)]
    IN [arg |-> h[1], ret |-> h[cp.ref], res |-> c.res, upg |-> c.upg,
        raised |-> c.raised]

\* Lines 74-75: new_state = engine.process_tick(engine.current_state, orders);
\* engine.current_state = new_state.  An exception ends the caller.
Tick ==
    /\ ~crashed
    /\ ~call.made
    /\ current_state.game_status = ACTIVE
    /\ ncalls < MaxCalls
    /\ \E orders \in OrderLists(scn) :
       \E uu \in UuidDraws(orders) :
       \E out \in {CallOutcome(current_state, orders, player_resources,
                                player_upgrades, hash_salt, uu)} :
             /\ player_resources' = out.res
             /\ player_upgrades' = out.upg
             /\ crashed' = (out.raised # NoError)
             /\ current_state' = IF out.raised = NoError THEN out.ret ELSE out.arg
             /\ call' = [made |-> TRUE, state |-> current_state,
                         res |-> player_resources, upg |-> player_upgrades,
                         orders |-> orders, raised |-> out.raised,
                         arg |-> out.arg, ret |-> out.ret]
    /\ ncalls' = ncalls + 1
    /\ UNCHANGED << hash_salt, scn, svars, hvars >>

\* Lines 76 and 68: the batch of the cycle is dropped and the loop waits for
\* the next cycle.
Cadence ==
    /\ ~crashed
    /\ call.made
    /\ call' = NoCall
    /\ UNCHANGED << current_state, player_resources, player_upgrades, hash_salt, scn,
                    crashed, ncalls, svars, hvars >>

Next == Tick \/ Cadence

Spec == Init /\ [][Next]_vars

(***************************************************************************)
(* Properties of process_tick                                              *)
(***************************************************************************)
Returned == call.made /\ call.raised = NoError

Players == {Red, Blue, Observer}

BatchHas(o) == \E k \in 1..Len(call.orders) : call.orders[k] = o

EventRank(e) ==
    CASE e.type = "RESEARCH" -> 1
      [] e.type = "BUILD" -> 2
      [] e.type = "COMBAT" -> 3
      [] e.type = "ELIMINATION" -> 4
      [] OTHER -> 0

EventsInPhaseOrder(events) ==
    /\ \A i, j \in 1..Len(events) : i < j => EventRank(events[i]) <= EventRank(events[j])
    /\ \A i \in 1..Len(events) : EventRank(events[i]) # 0
    /\ Cardinality({i \in 1..Len(events) : events[i].type = "ELIMINATION"}) <= 1

\* The technologies the RESEARCH orders of player p in the batch name, in
\* submission order, that p had not researched before the call.
RECURSIVE NewTechs(_, _, _, _)
NewTechs(orders, k, p, have) ==
    IF k > Len(orders) THEN << >>
    ELSE LET o == orders[k]
         IN IF o.player = p /\ o.order.type = RESEARCH /\ ~InSeq(o.order.tech_id, have)
            THEN << o.order.tech_id >>
                 \o NewTechs(orders, k + 1, p, Append(have, o.order.tech_id))
            ELSE NewTechs(orders, k + 1, p, have)

\* What research alone makes of p's upgrades, from the Intel p held before
\* the call: one technology per 200 Intel.
ResearchedAlone(p) ==
    LET new == NewTechs(call.orders, 1, p, UpgGet(call.upg, p))
        n == Min(Len(new), ResGet(call.res, p).I \div RESEARCH_COST)
    IN UpgGet(call.upg, p) \o SubSeq(new, 1, n)

\* The Fuel of player p once upkeep has been charged for the units the
\* state held before the call, in their order.
RECURSIVE FuelAfterUpkeep(_, _, _)
FuelAfterUpkeep(p, i, fuel) ==
    IF i > Len(call.state.units) THEN fuel
    ELSE LET u == call.state.units[i]
         IN IF u.owner = p /\ u.type \in DOMAIN UNIT_UPKEEP /\ fuel >= UNIT_UPKEEP[u.type]
            THEN FuelAfterUpkeep(p, i + 1, fuel - UNIT_UPKEEP[u.type])
            ELSE FuelAfterUpkeep(p, i + 1, fuel)

\* The pools of p that upkeep and research leave for the BUILD orders.
PoolsAtBuild(p) ==
    [M |-> call.res[p].M,
     F |-> IF (call.state.tick + 1) % UPKEEP_PERIOD = 0
           THEN FuelAfterUpkeep(p, 1, call.res[p].F) ELSE call.res[p].F,
     I |-> call.res[p].I
             - RESEARCH_COST * (Len(ResearchedAlone(p)) - Len(UpgGet(call.upg, p)))]

\* C1: the effects of one process_tick call come in the order of the phases.
\* Research is settled from the Intel held before the call, whatever BUILD
\* orders the batch holds and wherever they stand in it; a BUILD is accepted
\* only if the pools that upkeep and research have left cover its cost; the
\* events of the returned state are RESEARCH, then BUILD, then COMBAT
\* events, then at most one ELIMINATION event; and the status is decided on
\* the units that combat left.
C1_PhaseOrder ==
    call.made =>
        /\ \A p \in Players : UpgGet(player_upgrades, p) = ResearchedAlone(p)
        /\ call.raised = "ValidationError" =>
              \E k \in 1..Len(call.orders) :
                  LET o == call.orders[k]
                  IN /\ o.order.type = BUILD
                     /\ o.player \in DOMAIN call.res
                     /\ PoolsAtBuild(o.player).M >= CostOf(o.order.unit).M
                     /\ PoolsAtBuild(o.player).F >= CostOf(o.order.unit).F
                     /\ PoolsAtBuild(o.player).I >= CostOf(o.order.unit).I
        /\ call.raised = NoError =>
              /\ EventsInPhaseOrder(call.ret.events)
              /\ (call.ret.game_status = FINISHED)
                    <=> (Cardinality(ActiveChiefs(call.ret.units)) <= 1)
              /\ (call.ret.game_status = FINISHED)
                    <=> (\E i \in 1..Len(call.ret.events) :
                            call.ret.events[i].type = "ELIMINATION")

\* A BUILD that needs Intel stands ahead of a RESEARCH in the batch; the
\* player can pay either but not both, and the research is the one applied.
C1_Witness ==
    /\ Returned
    /\ Len(call.orders) = 2
    /\ call.orders[1] = Tagged(Red, BuildOrder("f_red_1", SPECIAL_FORCES))
    /\ call.orders[2] = Tagged(Red, ResearchOrder("INFANTRY_TIER_1"))
    /\ call.res[Red].I >= RESEARCH_COST
    /\ call.res[Red].I < RESEARCH_COST + UNIT_COSTS[SPECIAL_FORCES].I
    /\ InSeq("INFANTRY_TIER_1", UpgGet(player_upgrades, Red))
    /\ Len(call.ret.units) = Len(call.state.units)

\* C2: every process_tick call returns a state, whatever the orders.
C2_AlwaysReturns == call.made => call.raised = NoError

\* The visible outcome of a call: the exception if one was raised, the
\* stores, and the fields of the returned state.
Visible(out) ==
    [raised |-> out.raised,
     res |-> [p \in Players |-> ResGet(out.res, p)],
     upg |-> [p \in Players |-> UpgGet(out.upg, p)],
     state |-> IF out.raised = NoError THEN out.ret ELSE << >>]

\* C3: a second execution of the call, from the same state with the same
\* orders, gives the same visible outcome, whatever hash salt the executing
\* process has and whatever ids uuid4 draws.
C3_Determinism ==
    call.made =>
        \A salt \in HashSalts : \A uu \in UuidDraws(call.orders) :
            Visible(CallOutcome(call.state, call.orders, call.res, call.upg, salt, uu))
                = Visible([raised |-> call.raised, res |-> player_resources,
                           upg |-> player_upgrades, ret |-> call.ret])

\* C4: when a call has returned, the state it was given and the resources
\* and upgrades that went with it are as before the call.
C4_PureTransform ==
    Returned =>
        /\ call.arg = call.state
        /\ \A p \in Players : ResGet(player_resources, p) = ResGet(call.res, p)
        /\ \A p \in Players : UpgGet(player_upgrades, p) = UpgGet(call.upg, p)

\* The units of a state on hex h.
UnitsOn(state, h) == {i \in 1..Len(state.units) : Hex(state.units[i].q, state.units[i].r) = h}
HexesOf(state) == {Hex(state.units[i].q, state.units[i].r) : i \in 1..Len(state.units)}

\* C7: no hex of the match state holds more than 10 units.
C7_StackCap == \A h \in HexesOf(current_state) : Cardinality(UnitsOn(current_state, h)) <= STACK_CAP

\* A unit was ordered onto a hex that holds 10 units of its owner, and stayed out.
C7_Witness ==
    /\ Returned
    /\ \E k \in 1..Len(call.orders) :
          LET o == call.orders[k].order
          IN /\ o.type = MOVE
             /\ o.dest # NoDest
             /\ Cardinality(UnitsOn(call.state, o.dest)) = STACK_CAP
             /\ Cardinality(UnitsOn(current_state, o.dest)) = STACK_CAP
             /\ \E i \in 1..Len(current_state.units) :
                   /\ current_state.units[i].id = o.id
                   /\ current_state.units[i].owner = call.orders[k].player
                   /\ Hex(current_state.units[i].q, current_state.units[i].r) # o.dest

OwnersOn(state, h) == {state.units[i].owner : i \in UnitsOn(state, h)}

\* C8: no hex of the match state holds units of two owners.
C8_SingleOwnerStacks ==
    \A h \in HexesOf(current_state) : Cardinality(OwnersOn(current_state, h)) <= 1

\* A unit was ordered by its owner onto a hex an enemy unit stood on.
C8_Witness ==
    /\ Returned
    /\ \E k \in 1..Len(call.orders) :
          LET o == call.orders[k].order
          IN /\ o.type = MOVE
             /\ o.dest # NoDest
             /\ \E i \in 1..Len(call.state.units) :
                   /\ call.state.units[i].id = o.id
                   /\ call.state.units[i].owner = call.orders[k].player
                   /\ OwnersOn(call.state, o.dest) \ {call.orders[k].player} # {}

\* C9: every pool of every player is at least 0.
C9_ResourcesNonNegative ==
    \A p \in DOMAIN player_resources :
        /\ player_resources[p].M >= 0
        /\ player_resources[p].F >= 0
        /\ player_resources[p].I >= 0

\* An upkeep tick found an owner short of fuel, a research found too little
\* Intel or a build too little Materials, and the pool was left alone.
C9_Witness ==
    /\ call.made
    /\ (call.state.tick + 1) % UPKEEP_PERIOD = 0
    /\ \E i \in 1..Len(call.state.units) :
          LET u == call.state.units[i]
          IN /\ u.type \in DOMAIN UNIT_UPKEEP
             /\ call.res[u.owner].F < UNIT_UPKEEP[u.type]
             /\ player_resources[u.owner].F = call.res[u.owner].F
    /\ BatchHas(Tagged(Blue, ResearchOrder("INFANTRY_TIER_1")))
    /\ call.res[Blue].I < RESEARCH_COST

ChiefIds(state) == {state.units[i].id : i \in {i \in 1..Len(state.units) : state.units[i].type = CHIEF}}

\* C10: the Chiefs of the match after a call are among those before it.
C10_ChiefMonotonic == call.made => ChiefIds(current_state) \subseteq ChiefIds(call.state)

\* The owner of a facility ordered a Chief built there.
C10_Witness ==
    /\ call.made
    /\ BatchHas(Tagged(Red, BuildOrder("f_red_1", CHIEF)))
    /\ \E k \in 1..Len(call.state.facilities) :
          /\ call.state.facilities[k].id = "f_red_1"
          /\ call.state.facilities[k].owner = Red

(***************************************************************************)
(* server/main.py: the request handlers, which FastAPI runs on threads of  *)
(* its pool, and the game_ticker task, which runs on the event loop.       *)
(* Nothing orders the steps of one against the steps of another.           *)
(***************************************************************************)
\* Matches with a configuration file, process_tick calls of the ticker, and
\* order submissions accepted, in one behaviour.
MatchIds == {"m1"}
MaxTicks == 2
MaxSubmits == 2

\* GAME_PARAMS (lines 39-49): what parameters.json gives, or the fallback.
LoadedParams ==
    [resources |-> [M |-> 1000, F |-> 500, I |-> 0],
     initial_units |-> << UnitState("u_red_1", CHIEF, -3, -3, 150 * HPScale, 1, Red),
                          UnitState("u_blue_1", CHIEF, 3, 3, 150 * HPScale, 1, Blue),
                          LightInfantry("u_a", 2, 3, Red) >>]
GameParamsChoices == {FallbackParams, LoadedParams}

\* The Authorization header of a request, and the tokens of the players'
\* configuration files (lines 108-116).
Tokens == {None, "observer", "tok_red", "tok_stale"}
AuthTable == ("tok_red" :> Red) @@ ("tok_blue" :> Blue)

get_player_from_token(tables, match_id, token) ==
    IF token = None \/ token = "observer" THEN Observer
    ELSE IF match_id \in DOMAIN tables
         THEN IF token \in DOMAIN tables[match_id] THEN tables[match_id][token]
              ELSE Observer
         ELSE Observer

\* Lines 136-140: the state of a new match.
InitialState(params) ==
    [GameState(0, WAITING, params.initial_units, << >>, << >>)
        EXCEPT !.resources = params.resources]

\* GameEngine(match_id), lines 32-40, and line 136.
NewEngine(ref) ==
    [current_state |-> ref, player_resources |-> NoEntries, player_upgrades |-> NoEntries]

HTTP(op, match_id, status, body) ==
    [op |-> op, match_id |-> match_id, status |-> status, body |-> body]

\* GET /match/{match_id}/start
match_start(match_id, token) ==
    /\ IF match_id \notin DOMAIN games
       THEN /\ match_auth_tables' = (match_id :> AuthTable) @@ match_auth_tables
            /\ heap' = Append(heap, InitialState(game_params))
            /\ games' = (match_id :> NewEngine(Len(heap) + 1)) @@ games
            /\ game_order' = Append(game_order, match_id)
            /\ order_buffers' = (match_id :> << >>) @@ order_buffers
            /\ whole' = (match_id :> {InitialState(game_params)}) @@ whole
            /\ buffer_sn' = (match_id :> << >>) @@ buffer_sn
       ELSE UNCHANGED << match_auth_tables, heap, games, game_order, order_buffers,
                         whole, buffer_sn >>
    /\ reply' = HTTP("match_start", match_id, 200,
                     [match_id |-> match_id,
                      my_id |-> get_player_from_token(match_auth_tables', match_id, token)])
    /\ UNCHANGED << game_params, ticker, reader, ledger, evars, hash_salt, hvars >>

\* POST /match/{match_id}/start
start_match(match_id) ==
    /\ IF match_id \notin DOMAIN games
       THEN /\ reply' = HTTP("start_match", match_id, 404, "Match not found")
            /\ UNCHANGED << heap, whole >>
       ELSE /\ heap' = [heap EXCEPT ![games[match_id].current_state].game_status = ACTIVE]
            /\ whole' = [whole EXCEPT ![match_id] =
                            @ \cup {heap'[games[match_id].current_state]}]
            /\ reply' = HTTP("start_match", match_id, 200, [status |-> "started"])
    /\ UNCHANGED << game_params, games, game_order, order_buffers, match_auth_tables,
                    ticker, reader, buffer_sn, ledger, evars, hash_salt, hvars >>

\* The orders a client puts in a submission.
ClientOrders == {ResearchOrder("INFANTRY_TIER_1"), MoveOrder("u_a", Hex(2, 2))}
Submissions == {<< o >> : o \in ClientOrders}

\* POST /match/{match_id}/orders.  token is the Authorization header of the
\* request: the handler has no parameter for it, and only the ledger, which
\* is not a variable of the program, keeps whom it would resolve to.
submit_orders(match_id, token, orders) ==
    /\ IF match_id \notin DOMAIN games
       THEN /\ reply' = HTTP("submit_orders", match_id, 404, "Match not found")
            /\ UNCHANGED << order_buffers, buffer_sn, ledger >>
       ELSE /\ Len(ledger) + Len(orders) <= MaxSubmits
            /\ order_buffers' = [order_buffers EXCEPT ![match_id] = @ \o orders]
            /\ buffer_sn' = [buffer_sn EXCEPT ![match_id] =
                                @ \o [k \in 1..Len(orders) |-> Len(ledger) + k]]
            /\ ledger' = ledger \o [k \in 1..Len(orders) |->
                                       [match_id |-> match_id, seen |-> {},
                                        sender |-> get_player_from_token(
                                                      match_auth_tables, match_id, token)]]
            /\ reply' = HTTP("submit_orders", match_id, 200,
                             [status |-> "queued", count |-> Len(orders)])
    /\ UNCHANGED << game_params, heap, games, game_order, match_auth_tables, ticker,
                    reader, whole, evars, hash_salt, hvars >>

RECURSIVE SelectUnits(_, _, _, _)
SelectUnits(units, i, player_id, own) ==
    IF i > Len(units) THEN << >>
    ELSE (IF (units[i].owner = player_id) = own THEN << units[i] >> ELSE << >>)
         \o SelectUnits(units, i + 1, player_id, own)

\* Lines 173-188: what get_state returns for the object global_state names.
Projection(global_state, player_id) ==
    LET view == [tick |-> global_state.tick, game_status |-> global_state.game_status,
                 resources |-> global_state.resources, units |-> global_state.units,
                 facilities |-> global_state.facilities, visible_units |-> << >>,
                 events |-> global_state.events]
    IN IF player_id = Observer THEN view
       ELSE [view EXCEPT !.units = SelectUnits(global_state.units, 1, player_id, TRUE),
                         !.visible_units = SelectUnits(global_state.units, 1, player_id, FALSE)]

\* GET /match/{match_id}/state, lines 165-171.
get_state_load(match_id, token) ==
    /\ reader.pc = "idle"
    /\ IF match_id \notin DOMAIN games
       THEN /\ reply' = HTTP("get_state", match_id, 404, "Match not found")
            /\ UNCHANGED reader
       ELSE /\ reader' = [pc |-> "loaded", match_id |-> match_id,
                          player_id |-> get_player_from_token(match_auth_tables,
                                                              match_id, token),
                          global_state |-> games[match_id].current_state,
                          mid_tick |-> ticker.c # NoCtx]
            /\ UNCHANGED reply
    /\ UNCHANGED << game_params, heap, games, game_order, order_buffers,
                    match_auth_tables, ticker, whole, buffer_sn, ledger, evars, hash_salt, hvars >>

\* GET /match/{match_id}/state, lines 173-188.
get_state_return ==
    /\ reader.pc = "loaded"
    /\ reply' = [op |-> "get_state", match_id |-> reader.match_id, status |-> 200,
                 body |-> Projection(heap[reader.global_state], reader.player_id),
                 player_id |-> reader.player_id,
                 mid_tick |-> reader.mid_tick,
                 swapped |-> games[reader.match_id].current_state # reader.global_state]
    /\ reader' = [pc |-> "idle"]
    /\ UNCHANGED << game_params, heap, games, game_order, order_buffers,
                    match_auth_tables, ticker, whole, buffer_sn, ledger, evars, hash_salt, hvars >>

(***************************************************************************)
(* game_ticker, lines 65-79.  process_tick runs on the event loop with no  *)
(* await in it, but the handlers run on other threads: its steps here are  *)
(* entry (lines 82-95), the four loops over orders, movement, combat and   *)
(* the victory check.  current_orders is the list object of the buffer.    *)
(***************************************************************************)
TickerAt(pc) == ticker.pc = pc

\* Line 68 is over: for match_id, engine in games.items() starts.
TickerWake ==
    /\ TickerAt("sleep")
    /\ ticker' = [ticker EXCEPT !.pc = "iter", !.i = 1, !.size = Len(game_order)]
    /\ UNCHANGED << game_params, heap, games, game_order, order_buffers,
                    match_auth_tables, reader, reply, whole, buffer_sn, ledger,
                    evars, hash_salt, hvars >>

\* The dict iterator finds games changed in size: RuntimeError leaves the task.
TickerFail ==
    /\ TickerAt("iter")
    /\ Len(game_order) # ticker.size
    /\ ticker' = [ticker EXCEPT !.pc = "dead", !.error = "RuntimeError"]
    /\ UNCHANGED << game_params, heap, games, game_order, order_buffers,
                    match_auth_tables, reader, reply, whole, buffer_sn, ledger,
                    evars, hash_salt, hvars >>

\* The iteration is over: back to line 68.
TickerEnd ==
    /\ TickerAt("iter")
    /\ Len(game_order) = ticker.size
    /\ ticker.i > ticker.size
    /\ ticker' = [ticker EXCEPT !.pc = "sleep"]
    /\ UNCHANGED << game_params, heap, games, game_order, order_buffers,
                    match_auth_tables, reader, reply, whole, buffer_sn, ledger,
                    evars, hash_salt, hvars >>

TickerMatch == game_order[ticker.i]

\* Lines 71-72: a match that is not ACTIVE is passed over.
TickerSkip ==
    /\ TickerAt("iter")
    /\ Len(game_order) = ticker.size
    /\ ticker.i <= ticker.size
    /\ heap[games[TickerMatch].current_state].game_status # ACTIVE
    /\ ticker' = [ticker EXCEPT !.i = @ + 1]
    /\ UNCHANGED << game_params, heap, games, game_order, order_buffers,
                    match_auth_tables, reader, reply, whole, buffer_sn, ledger,
                    evars, hash_salt, hvars >>

\* The elements of the list a loop of process_tick gets to: those up to the
\* first one that does not unpack into (player_id, order).
Reached(orders) == {k \in 1..Len(orders) : \A j \in 1..(k - 1) : IsPair(orders[j])}

\* The loop numbered loop of the current call iterates over the buffer.
Iterated(loop) ==
    LET m == ticker.m
        sns == {buffer_sn[m][k] : k \in Reached(order_buffers[m])}
    IN ledger' = [sn \in DOMAIN ledger |->
                     IF sn \in sns
                     THEN [ledger[sn] EXCEPT !.seen = @ \cup {<< ticker.calls, loop >>}]
                     ELSE ledger[sn]]

\* A step of process_tick leaves the context c: next_state and the stores of
\* the engine are as c has them, and an exception ends the task.
TickerStep(c, pc) ==
    /\ heap' = [heap EXCEPT ![ticker.next_state] = StateOf(c)]
    /\ games' = [games EXCEPT ![ticker.m].player_resources = c.res,
                              ![ticker.m].player_upgrades = c.upg]
    /\ ticker' = IF c.raised # NoError
                 THEN [ticker EXCEPT !.pc = "dead", !.error = c.raised, !.c = NoCtx]
                 ELSE [ticker EXCEPT !.pc = pc, !.c = c]

\* Lines 71-74 and 82-95: the match is ACTIVE; current_orders is bound to the
\* buffer and process_tick is entered.
TickerBegin ==
    /\ TickerAt("iter")
    /\ Len(game_order) = ticker.size
    /\ ticker.i <= ticker.size
    /\ ticker.calls < MaxTicks
    /\ LET m == TickerMatch
           engine == games[m]
       IN /\ heap[engine.current_state].game_status = ACTIVE
          /\ \E cp \in {deepcopy(heap, engine.current_state)} :
             \E c \in {phase_upkeep_index(tick_begin(cp.heap[cp.ref],
                                                     engine.player_resources,
                                                     engine.player_upgrades))} :
                /\ heap' = [cp.heap EXCEPT ![cp.ref] = StateOf(c)]
                /\ games' = [games EXCEPT ![m].player_resources = c.res,
                                          ![m].player_upgrades = c.upg]
                /\ ticker' = [ticker EXCEPT !.pc = "research", !.m = m,
                                            !.next_state = cp.ref, !.c = c,
                                            !.calls = @ + 1]
    /\ UNCHANGED << game_params, game_order, order_buffers, match_auth_tables, reader,
                    reply, whole, buffer_sn, ledger, evars, hash_salt, hvars >>

\* Lines 99-102.
TickerResearch ==
    /\ TickerAt("research")
    /\ \E c \in {phase_research(ticker.c, order_buffers[ticker.m])} :
          TickerStep(c, "build")
    /\ Iterated(1)
    /\ UNCHANGED << game_params, game_order, order_buffers, match_auth_tables, reader,
                    reply, whole, buffer_sn, evars, hash_salt, hvars >>

\* Lines 104-108.
TickerBuild ==
    /\ TickerAt("build")
    /\ \E uu \in UuidDraws(order_buffers[ticker.m]) :
       \E c \in {phase_build(ticker.c, order_buffers[ticker.m], uu)} :
          TickerStep(c, "research_again")
    /\ Iterated(2)
    /\ UNCHANGED << game_params, game_order, order_buffers, match_auth_tables, reader,
                    reply, whole, buffer_sn, evars, hash_salt, hvars >>

\* Lines 110-113.
TickerResearchAgain ==
    /\ TickerAt("research_again")
    /\ \E c \in {phase_research_again(ticker.c, order_buffers[ticker.m])} :
          TickerStep(c, "movement")
    /\ Iterated(3)
    /\ UNCHANGED << game_params, game_order, order_buffers, match_auth_tables, reader,
                    reply, whole, buffer_sn, evars, hash_salt, hvars >>

\* Lines 115-124.
TickerMovement ==
    /\ TickerAt("movement")
    /\ \E c \in {phase_movement(ticker.c, order_buffers[ticker.m], HashFn(hash_salt))} :
          TickerStep(c, "combat")
    /\ Iterated(4)
    /\ UNCHANGED << game_params, game_order, order_buffers, match_auth_tables, reader,
                    reply, whole, buffer_sn, evars, hash_salt, hvars >>

\* Lines 126-127.
TickerCombat ==
    /\ TickerAt("combat")
    /\ \E c \in {phase_combat(ticker.c)} : TickerStep(c, "victory")
    /\ UNCHANGED << game_params, game_order, order_buffers, match_auth_tables, reader,
                    reply, whole, buffer_sn, ledger, evars, hash_salt, hvars >>

\* Lines 129-132.
TickerVictory ==
    /\ TickerAt("victory")
    /\ \E c \in {phase_victory(ticker.c)} : TickerStep(c, "install")
    /\ UNCHANGED << game_params, game_order, order_buffers, match_auth_tables, reader,
                    reply, whole, buffer_sn, ledger, evars, hash_salt, hvars >>

\* Line 75: engine.current_state = new_state.
TickerInstall ==
    /\ TickerAt("install")
    /\ games' = [games EXCEPT ![ticker.m].current_state = ticker.next_state]
    /\ whole' = [whole EXCEPT ![ticker.m] = @ \cup {heap[ticker.next_state]}]
    /\ ticker' = [ticker EXCEPT !.pc = "clear", !.c = NoCtx]
    /\ UNCHANGED << game_params, heap, game_order, order_buffers, match_auth_tables,
                    reader, reply, buffer_sn, ledger, evars, hash_salt, hvars >>

\* Line 76: order_buffers[match_id] = [].
TickerClear ==
    /\ TickerAt("clear")
    /\ order_buffers' = [order_buffers EXCEPT ![ticker.m] = << >>]
    /\ buffer_sn' = [buffer_sn EXCEPT ![ticker.m] = << >>]
    /\ ticker' = [ticker EXCEPT !.pc = "iter", !.i = @ + 1]
    /\ UNCHANGED << game_params, heap, games, game_order, match_auth_tables, reader,
                    reply, whole, ledger, evars, hash_salt, hvars >>

\* The engine variables play no part in the server specification.
EngineUnused ==
    /\ scn = "server"
    /\ current_state = GameState(0, WAITING, << >>, << >>, << >>)
    /\ player_resources = NoEntries
    /\ player_upgrades = NoEntries
    /\ crashed = FALSE
    /\ ncalls = 0
    /\ call = NoCall

ServerInit ==
    /\ game_params \in GameParamsChoices
    /\ hash_salt \in HashSalts
    /\ ServerFresh
    /\ EngineUnused
    /\ HexUnused

ServerNext ==
    \/ \E match_id \in MatchIds : \E token \in Tokens : match_start(match_id, token)
    \/ \E match_id \in MatchIds : start_match(match_id)
    \/ \E match_id \in MatchIds : \E token \in Tokens : \E orders \in Submissions :
          submit_orders(match_id, token, orders)
    \/ \E match_id \in MatchIds : \E token \in Tokens : get_state_load(match_id, token)
    \/ get_state_return
    \/ TickerWake
    \/ TickerFail
    \/ TickerEnd
    \/ TickerSkip
    \/ TickerBegin
    \/ TickerResearch
    \/ TickerBuild
    \/ TickerResearchAgain
    \/ TickerMovement
    \/ TickerCombat
    \/ TickerVictory
    \/ TickerInstall
    \/ TickerClear

ServerSpec == ServerInit /\ [][ServerNext]_vars

\* The steps of game_ticker outside process_tick.  The event loop resumes
\* the task when its sleep is over, so a step of it that stays possible is
\* taken.
TickerCycle ==
    \/ TickerWake
    \/ TickerFail
    \/ TickerEnd
    \/ TickerSkip
    \/ TickerInstall
    \/ TickerClear

\* Line 74 is next: the match at hand is ACTIVE.
CallDue ==
    /\ TickerAt("iter")
    /\ Len(game_order) = ticker.size
    /\ ticker.i <= ticker.size
    /\ ticker.calls < MaxTicks
    /\ heap[games[TickerMatch].current_state].game_status = ACTIVE

\* The pcs of the ticker inside process_tick, which has no await in it: the
\* task is never left at line 74 or inside the call for ever.  Each of these
\* steps ends its own pc, so this is weak fairness of TickerBegin and of the
\* steps of process_tick.
InProcessTick == {"research", "build", "research_again", "movement", "combat", "victory"}
CallRuns == []<>(~CallDue) /\ \A pc \in InProcessTick : []<>(~TickerAt(pc))

ServerFairSpec == ServerInit /\ [][ServerNext]_vars /\ WF_vars(TickerCycle) /\ CallRuns

(***************************************************************************)
(* The range functions of shared/hex_math.py, called on a center and a     *)
(* radius and iterated to the end.                                         *)
(***************************************************************************)
\* The largest radius a range function is called with.
MaxRadius == 3
\* The largest absolute coordinate of a center.
MaxCoord == 2

HexInit ==
    /\ hex_center \in {Hex(q, r) : q \in -MaxCoord..MaxCoord, r \in -MaxCoord..MaxCoord}
    /\ hex_radius \in 0..MaxRadius
    /\ hex_result = NoResult
    /\ game_params = FallbackParams
    /\ hash_salt = 1
    /\ ServerFresh
    /\ EngineUnused

\* list(hex_ring(center, radius))
RingCall ==
    /\ hex_result = NoResult
    /\ \E out \in {hex_ring(hex_center, hex_radius)} :
          hex_result' = [fn |-> "hex_ring", yielded |-> out.yielded, raised |-> out.raised]
    /\ UNCHANGED << hex_center, hex_radius, evars, hash_salt, svars >>

\* list(hex_spiral(center, radius))
SpiralCall ==
    /\ hex_result = NoResult
    /\ \E out \in {hex_spiral(hex_center, hex_radius)} :
          hex_result' = [fn |-> "hex_spiral", yielded |-> out.yielded, raised |-> out.raised]
    /\ UNCHANGED << hex_center, hex_radius, evars, hash_salt, svars >>

HexNext == RingCall \/ SpiralCall

HexSpec == HexInit /\ [][HexNext]_vars

(***************************************************************************)
(* Properties of the server                                                *)
(***************************************************************************)
\* The loops of process_tick over orders: lines 100, 106, 111 and 117.
Loops == 1..4

InBuffer(sn) ==
    \E k \in DOMAIN buffer_sn[ledger[sn].match_id] : buffer_sn[ledger[sn].match_id][k] = sn

\* C5: every accepted order is iterated over by the loops of one
\* process_tick call only, by an earlier loop of the call whenever by a
\* later one, and, once it has left the buffer, by all of them.
C5_EveryOrderInOneTick ==
    \A sn \in DOMAIN ledger :
        LET seen == ledger[sn].seen
            calls == {x[1] : x \in seen}
        IN /\ Cardinality(calls) <= 1
           /\ \A x \in seen : \A j \in 1..(x[2] - 1) : << x[1], j >> \in seen
           /\ ~InBuffer(sn) => \E n \in calls : \A j \in Loops : << n, j >> \in seen

\* C6: what get_state returns is the projection of a state the match has
\* been in between ticks.
C6_WholeStateServed ==
    (reply.op = "get_state" /\ reply.status = 200) =>
        \E s \in whole[reply.match_id] : reply.body = Projection(s, reply.player_id)

\* A request read engine.current_state while process_tick was running and
\* built its answer after the new state was installed.
C6_Witness ==
    /\ reply.op = "get_state"
    /\ reply.status = 200
    /\ reply.mid_tick
    /\ reply.swapped
    /\ reply.body.tick < heap[games[reply.match_id].current_state].tick

(***************************************************************************)
(* Properties of the engine, continued                                     *)
(***************************************************************************)
TechIds == {"INFANTRY_TIER_1", "ARMOR_TIER_1"}

Researched(upg, p, t) == InSeq(t, UpgGet(upg, p))

\* C11: a technology in a player's upgrades stays in them in every step.
C11_ResearchPermanent ==
    [][\A p \in Players : \A t \in TechIds :
          Researched(player_upgrades, p, t) => Researched(player_upgrades', p, t)]_vars

\* A technology researched in an earlier tick is still there after a later
\* call that was given a RESEARCH order for it again.
C11_Witness ==
    /\ call.made
    /\ ncalls = 2
    /\ Researched(call.upg, Red, "INFANTRY_TIER_1")
    /\ BatchHas(Tagged(Red, ResearchOrder("INFANTRY_TIER_1")))
    /\ Researched(player_upgrades, Red, "INFANTRY_TIER_1")

\* The context of the last call when its combat phase began.  No BUILD was
\* accepted in a call that returned, so no id was drawn.
PreCombat ==
    phase_movement(
      phase_research_again(
        phase_build(
          phase_research(
            phase_upkeep_index(tick_begin(call.state, call.res, call.upg)),
            call.orders),
          call.orders, << >>),
        call.orders),
      call.orders, HashFn(hash_salt))

HpOf(units, id) == units[CHOOSE i \in 1..Len(units) : units[i].id = id].hp
IdsOf(units) == {units[i].id : i \in 1..Len(units)}
CombatEvents(events) == {i \in 1..Len(events) : events[i].type = "COMBAT"}

\* C12: the damage credited to a unit in a combat phase is at least 0 and at
\* most the HP the unit had when the phase began; every unit that is left
\* has lost exactly the damage credited to it, once, and has HP above 0; and
\* no two COMBAT events name the same casualty.
C12_NoOverkill ==
    Returned =>
        LET c == PreCombat
            pd == PendingDamage(c)
        IN /\ \A id \in DOMAIN pd :
                 /\ id \in IdsOf(c.units)
                 /\ pd[id] >= 0
                 /\ pd[id] <= HpOf(c.units, id)
           /\ \A i \in 1..Len(call.ret.units) :
                 LET u == call.ret.units[i]
                 IN /\ u.hp > 0
                    /\ u.hp = HpOf(c.units, u.id)
                                - (IF u.id \in DOMAIN pd THEN pd[u.id] ELSE 0)
           /\ \A i, j \in CombatEvents(call.ret.events) :
                 call.ret.events[i].details.casualties
                    = call.ret.events[j].details.casualties => i = j

\* One unit fell, credited with all its HP, and another, the first of a
\* stack of several defenders, was credited with a part of its HP.
C12_Witness ==
    /\ Returned
    /\ scn = "stack"
    /\ \E id \in DOMAIN PendingDamage(PreCombat) :
          PendingDamage(PreCombat)[id] = HpOf(PreCombat.units, id)
    /\ \E id \in DOMAIN PendingDamage(PreCombat) :
          /\ PendingDamage(PreCombat)[id] > 0
          /\ PendingDamage(PreCombat)[id] < HpOf(PreCombat.units, id)

\* The players that own a Chief of the state, and its ELIMINATION events.
ChiefOwners(state) ==
    {state.units[i].owner : i \in {i \in 1..Len(state.units) : state.units[i].type = CHIEF}}
Eliminations(state) ==
    {i \in 1..Len(state.events) : state.events[i].type = "ELIMINATION"}

\* C13: in the state a call returns, with no Chief left the status is
\* FINISHED and there is one ELIMINATION event, a DRAW; with the Chiefs of
\* one player left the status is FINISHED and there is one ELIMINATION
\* event, a WIN of that player; with Chiefs of several players left the
\* status is ACTIVE and there is no ELIMINATION event.
C13_VictoryRule ==
    Returned =>
        LET s == call.ret
            owners == ChiefOwners(s)
            elim == Eliminations(s)
        IN /\ owners = {} =>
                 /\ s.game_status = FINISHED
                 /\ Cardinality(elim) = 1
                 /\ \A i \in elim : s.events[i].details = [res |-> "DRAW"]
           /\ Cardinality(owners) = 1 =>
                 /\ s.game_status = FINISHED
                 /\ Cardinality(elim) = 1
                 /\ \A i \in elim : /\ s.events[i].details.res = "WIN"
                                    /\ s.events[i].details.winner \in owners
           /\ Cardinality(owners) >= 2 =>
                 /\ s.game_status = ACTIVE
                 /\ elim = {}

\* Both players had a Chief before the call and combat left only Blue's.
C13_Witness ==
    /\ Returned
    /\ ChiefOwners(call.state) = {Red, Blue}
    /\ ChiefOwners(call.ret) = {Blue}
    /\ call.ret.game_status = FINISHED

\* Both players had a Chief before the call and combat left none.
C13_WitnessDraw ==
    /\ Returned
    /\ ChiefOwners(call.state) = {Red, Blue}
    /\ ChiefOwners(call.ret) = {}

\* The unit with the id in a state, and whether the batch of the call has a
\* MOVE of the unit by player p, or a BUILD by p at a facility of p.
UnitOf(state, id) == state.units[CHOOSE i \in 1..Len(state.units) : state.units[i].id = id]
MovedBy(p, id) ==
    \E k \in 1..Len(call.orders) :
        /\ call.orders[k].player = p
        /\ call.orders[k].order.type = MOVE
        /\ call.orders[k].order.id = id
BuiltBy(p) ==
    \E k \in 1..Len(call.orders) : \E f \in 1..Len(call.state.facilities) :
        /\ call.orders[k].player = p
        /\ call.orders[k].order.type = BUILD
        /\ call.orders[k].order.fac_id = call.state.facilities[f].id
        /\ call.state.facilities[f].owner = p

\* An order that names a unit or a facility of a player other than its
\* submitter.
Foreign(o) ==
    \/ /\ o.order.type = MOVE
       /\ \E i \in 1..Len(call.state.units) :
             call.state.units[i].id = o.order.id /\ call.state.units[i].owner # o.player
    \/ /\ o.order.type = BUILD
       /\ \E f \in 1..Len(call.state.facilities) :
             /\ call.state.facilities[f].id = o.order.fac_id
             /\ call.state.facilities[f].owner # o.player

\* C20: a unit is on another hex after a call only if the batch has a MOVE
\* of it by its owner; Materials, which only a BUILD takes, are lower after
\* a call only for a player whose BUILD at a facility of its own is in the
\* batch; and a batch of orders that all name another player's unit or
\* facility leaves what the empty batch leaves.
C20_OwnershipCheck ==
    /\ Returned =>
          \A id \in IdsOf(call.state.units) \cap IdsOf(call.ret.units) :
              LET u == UnitOf(call.state, id)
                  v == UnitOf(call.ret, id)
              IN Hex(u.q, u.r) # Hex(v.q, v.r) => MovedBy(u.owner, id)
    /\ call.made =>
          \A p \in DOMAIN call.res :
              player_resources[p].M < call.res[p].M => BuiltBy(p)
    /\ (call.made /\ \A k \in 1..Len(call.orders) : Foreign(call.orders[k])) =>
          LET out == CallOutcome(call.state, << >>, call.res, call.upg, hash_salt, << >>)
          IN /\ call.raised = out.raised
             /\ call.ret = out.ret
             /\ player_resources = out.res
             /\ player_upgrades = out.upg

\* Blue ordered Red's u_a to a hex and Red ordered its own u_b there: u_b is
\* on it and u_a is where it was.
C20_Witness ==
    /\ Returned
    /\ scn = "contest"
    /\ call.orders = << Tagged(Blue, MoveOrder("u_a", Hex(1, 0))),
                        Tagged(Red, MoveOrder("u_b", Hex(1, 0))) >>
    /\ Hex(UnitOf(call.ret, "u_a").q, UnitOf(call.ret, "u_a").r) = Hex(0, 0)
    /\ Hex(UnitOf(call.ret, "u_b").q, UnitOf(call.ret, "u_b").r) = Hex(1, 0)

\* Red's BUILD at Blue's facility and at its own: one debit.
C20_WitnessBuild ==
    /\ call.made
    /\ BatchHas(Tagged(Red, BuildOrder("f_blue_1", LIGHT_INFANTRY)))
    /\ BatchHas(Tagged(Red, BuildOrder("f_red_1", LIGHT_INFANTRY)))
    /\ player_resources[Red].M = call.res[Red].M - UNIT_COSTS[LIGHT_INFANTRY].M

\* Red's BUILD at Blue's facility alone.
C20_WitnessForeign ==
    /\ Returned
    /\ call.orders = << Tagged(Red, BuildOrder("f_blue_1", LIGHT_INFANTRY)) >>

\* In the units left by the movement phase: the units next to unit i that
\* another player owns, and whether the call took hp from a unit or removed it.
EnemiesNextTo(units, i) ==
    {j \in 1..Len(units) :
        /\ units[j].owner # units[i].owner
        /\ hex_distance(Hex(units[i].q, units[i].r), Hex(units[j].q, units[j].r)) = 1}
SharesHex(units, i, j) == Hex(units[i].q, units[i].r) = Hex(units[j].q, units[j].r)
Damaged(units, i) ==
    \/ units[i].id \notin IdsOf(call.ret.units)
    \/ HpOf(call.ret.units, units[i].id) < units[i].hp

\* C23: with the units where the movement phase of the call left them, a
\* unit with no unit of another player on an adjacent hex loses no hp in the
\* call, and a unit with one loses hp itself or a unit on its hex does.
C23_CombatAfterMovement ==
    Returned =>
        LET units == PreCombat.units
        IN \A i \in 1..Len(units) :
              /\ EnemiesNextTo(units, i) = {} => ~Damaged(units, i)
              /\ EnemiesNextTo(units, i) # {} =>
                    \E j \in 1..Len(units) : SharesHex(units, i, j) /\ Damaged(units, j)

\* The units of the call after upkeep and the MP refresh, and after movement.
Refreshed == phase_upkeep_index(tick_begin(call.state, call.res, call.upg)).units
Moved == PreCombat.units
HexOfUnit(units, id) ==
    LET u == units[CHOOSE i \in 1..Len(units) : units[i].id = id] IN Hex(u.q, u.r)
MpOf(units, id) == units[CHOOSE i \in 1..Len(units) : units[i].id = id].mp
OwnerOf(units, id) == units[CHOOSE i \in 1..Len(units) : units[i].id = id].owner

\* The call at line 124: the context, the intentions, the bounced set the
\* loop of Phase C starts from, and what the loop ends with.
PreMovement ==
    phase_research_again(
      phase_build(
        phase_research(
          phase_upkeep_index(tick_begin(call.state, call.res, call.upg)),
          call.orders),
        call.orders, << >>),
      call.orders)
Intentions ==
    collect_intentions(PreMovement,
                       move_filter(PreMovement, call.orders, 1, << >>).move_orders,
                       1, << >>).intentions
IntentUids == {Intentions[k].uid : k \in 1..Len(Intentions)}
BeforeChain ==
    phase_b(PreMovement, Intentions, 1, phase_a(PreMovement, HashFn(hash_salt), Intentions))
Chain == phase_c(PreMovement, Intentions, BeforeChain, 0)

\* The eligible MOVE orders of the batch for a unit: by its owner, to a hex
\* of the map.  The last of them is the unit's intent.
MoveOrdersOf(id) ==
    {k \in 1..Len(call.orders) :
        /\ call.orders[k].order.type = MOVE
        /\ call.orders[k].order.id = id
        /\ call.orders[k].player = OwnerOf(Refreshed, id)
        /\ call.orders[k].order.dest # NoDest
        /\ hex_distance(Hex(0, 0), call.orders[k].order.dest) <= MAP_RADIUS}
HasMove(id) == id \in IdsOf(Refreshed) /\ MoveOrdersOf(id) # {}
IntentOf(id) ==
    call.orders[CHOOSE k \in MoveOrdersOf(id) : \A j \in MoveOrdersOf(id) : j <= k].order.dest
Contenders(h) == {id \in IdsOf(Refreshed) : HasMove(id) /\ IntentOf(id) = h}
Targets == {IntentOf(id) : id \in {x \in IdsOf(Refreshed) : HasMove(x)}}

\* a comes before b in the order (current MP, integer of the id), descending.
Outranks(a, b) ==
    \/ MpOf(Refreshed, a) > MpOf(Refreshed, b)
    \/ /\ MpOf(Refreshed, a) = MpOf(Refreshed, b)
       /\ HashFn(hash_salt)[a] > HashFn(hash_salt)[b]

\* C24: of the units with an intent for the same hex, every one that another
\* of them outranks by (MP, integer of the id) is at its origin after
\* movement, so at most one of them has moved to the hex.
C24_Contention ==
    Returned =>
        \A h \in Targets :
            Cardinality(Contenders(h)) >= 2 =>
                /\ \A a \in Contenders(h) :
                      (\E b \in Contenders(h) : Outranks(b, a)) =>
                          HexOfUnit(Moved, a) = HexOfUnit(Refreshed, a)
                /\ Cardinality({a \in Contenders(h) :
                                   HexOfUnit(Moved, a) # HexOfUnit(Refreshed, a)}) <= 1

\* Units a and b have intents for each other's hexes; a is bounced by the
\* contention for its target; the units on a hex before movement.
SwapPair(a, b) ==
    /\ a # b
    /\ HasMove(a)
    /\ HasMove(b)
    /\ IntentOf(a) = HexOfUnit(Refreshed, b)
    /\ IntentOf(b) = HexOfUnit(Refreshed, a)
LosesContention(a) == a \in phase_a(PreMovement, HashFn(hash_salt), Intentions)
OccupantsOf(h) == {id \in IdsOf(Refreshed) : HexOfUnit(Refreshed, id) = h}
Stays(a) == HexOfUnit(Moved, a) = HexOfUnit(Refreshed, a)
Exchanged(a, b) ==
    /\ HexOfUnit(Moved, a) = HexOfUnit(Refreshed, b)
    /\ HexOfUnit(Moved, b) = HexOfUnit(Refreshed, a)

\* C25 as stated: units of different owners with intents for each other's
\* hexes both stay; units of one owner with such intents, neither losing a
\* contention, exchange their hexes.
C25_SwapAsStated ==
    Returned =>
        \A a, b \in IdsOf(Refreshed) :
            SwapPair(a, b) =>
                IF OwnerOf(Refreshed, a) # OwnerOf(Refreshed, b)
                THEN Stays(a) /\ Stays(b)
                ELSE (~LosesContention(a) /\ ~LosesContention(b)) => Exchanged(a, b)

\* C25: units of different owners with intents for each other's hexes both
\* stay; units of one owner with such intents, neither losing a contention
\* and each on a hex with fewer than STACK_CAP units, exchange their hexes.
C25_Swap ==
    Returned =>
        \A a, b \in IdsOf(Refreshed) :
            SwapPair(a, b) =>
                IF OwnerOf(Refreshed, a) # OwnerOf(Refreshed, b)
                THEN Stays(a) /\ Stays(b)
                ELSE (/\ ~LosesContention(a)
                      /\ ~LosesContention(b)
                      /\ Cardinality(OccupantsOf(IntentOf(a))) < STACK_CAP
                      /\ Cardinality(OccupantsOf(IntentOf(b))) < STACK_CAP)
                     => Exchanged(a, b)

\* Red's u_a and u_b ordered into each other's hexes and exchanged them.
C25_Witness ==
    /\ Returned
    /\ scn = "swap"
    /\ SwapPair("u_a", "u_b")
    /\ Exchanged("u_a", "u_b")
    /\ HexOfUnit(Moved, "u_a") # HexOfUnit(Refreshed, "u_a")

\* Red's u_a and Blue's u_x ordered into each other's hexes and stayed.
C25_WitnessEnemies ==
    /\ Returned
    /\ scn = "swap"
    /\ SwapPair("u_a", "u_x")
    /\ Stays("u_a")
    /\ Stays("u_x")

\* The target of unit a, as the movement phase found it, lets a in: no unit
\* of another owner is on it, and if STACK_CAP or more units are on it, none
\* of them stays.
TargetOpen(a) ==
    LET occ == OccupantsOf(IntentOf(a))
    IN /\ \A o \in occ : OwnerOf(Refreshed, o) = OwnerOf(Refreshed, a)
       /\ Cardinality(occ) >= STACK_CAP => \A o \in occ : ~Stays(o)

\* C26: after movement a unit with an intent is away from its origin only
\* if its target was open, and is at its origin if its target was not.
C26_BlockedTargets ==
    Returned =>
        \A a \in IdsOf(Refreshed) :
            HasMove(a) =>
                /\ ~Stays(a) => (TargetOpen(a) /\ HexOfUnit(Moved, a) = IntentOf(a))
                /\ ~TargetOpen(a) => Stays(a)

\* Red's u_a ordered onto the hex of Blue's u_x, which moved away: u_a stayed.
C26_Witness ==
    /\ Returned
    /\ scn = "contest"
    /\ call.orders = << Tagged(Red, MoveOrder("u_a", Hex(1, 1))),
                        Tagged(Blue, MoveOrder("u_x", Hex(1, 0))) >>
    /\ Stays("u_a")
    /\ ~Stays("u_x")

\* A unit ordered onto a hex with STACK_CAP units, one of which stays: it stayed.
C26_WitnessFull ==
    /\ Returned
    /\ scn = "stack"
    /\ \E a \in IdsOf(Refreshed) :
          /\ HasMove(a)
          /\ Cardinality(OccupantsOf(IntentOf(a))) >= STACK_CAP
          /\ \A o \in OccupantsOf(IntentOf(a)) : OwnerOf(Refreshed, o) = OwnerOf(Refreshed, a)
          /\ Stays(a)

\* C27: a pass of the loop of Phase C, from any bounced set, leaves a set
\* that contains it, the same set when the pass ends the loop and a larger
\* one when it does not; the loop ends, after at most one pass more than
\* there are intents and than it has added units, with a set of units that
\* have intents.
C27_ChainTerminates ==
    Returned =>
        /\ \A b \in SUBSET IntentUids :
              LET p == phase_c_pass(PreMovement, Intentions, 1, b, TRUE)
              IN /\ b \subseteq p.bounced
                 /\ p.bounced \subseteq IntentUids
                 /\ p.stable <=> p.bounced = b
        /\ BeforeChain \subseteq Chain.bounced
        /\ Chain.bounced \subseteq IntentUids
        /\ Chain.passes >= 1
        /\ Chain.passes <= Len(Intentions) + 1
        /\ Chain.passes <= Cardinality(Chain.bounced \ BeforeChain) + 1

\* The loop added a unit in its first pass and ended with the second.
C27_Witness ==
    /\ Returned
    /\ Len(Intentions) >= 1
    /\ Chain.bounced # BeforeChain
    /\ Chain.passes = 2

\* The units whose move the movement phase executed, and the MOVE orders of
\* the batch that name a unit, eligible or not.
Executed == IntentUids \ Chain.bounced
NamedBy(id) ==
    {k \in 1..Len(call.orders) :
        call.orders[k].order.type = MOVE /\ call.orders[k].order.id = id}

\* C28: after movement, and after the tick if it survives, a unit whose move
\* was executed is on the target of its last eligible MOVE order with its
\* refreshed MP less 1, not below 0; every other unit, bounced or without an
\* intent, is on its origin with its refreshed MP.
C28_MpAccounting ==
    Returned =>
        \A id \in IdsOf(Refreshed) :
            /\ id \in IdsOf(Moved)
            /\ IF id \in Executed
               THEN /\ HasMove(id)
                    /\ HexOfUnit(Moved, id) = IntentOf(id)
                    /\ MpOf(Moved, id) = Max(0, MpOf(Refreshed, id) - 1)
               ELSE /\ HexOfUnit(Moved, id) = HexOfUnit(Refreshed, id)
                    /\ MpOf(Moved, id) = MpOf(Refreshed, id)
            /\ id \in IdsOf(call.ret.units) =>
                  /\ HexOfUnit(call.ret.units, id) = HexOfUnit(Moved, id)
                  /\ MpOf(call.ret.units, id) = MpOf(Moved, id)

\* A unit named by two MOVE orders moved once: it is on the target of the
\* later one with one MP less, and a unit without an order kept its MP.
C28_Witness ==
    /\ Returned
    /\ \E id \in Executed :
          /\ Cardinality(NamedBy(id)) >= 2
          /\ HexOfUnit(Moved, id) # HexOfUnit(Refreshed, id)
          /\ MpOf(Refreshed, id) >= 2
          /\ id \in IdsOf(call.ret.units)
          /\ MpOf(call.ret.units, id) = MpOf(Refreshed, id) - 1
    /\ \E id \in IdsOf(Refreshed) : ~HasMove(id)

\* A bounced unit kept its hex and its MP.
C28_WitnessBounced ==
    /\ Returned
    /\ \E id \in Chain.bounced :
          /\ HexOfUnit(Moved, id) = HexOfUnit(Refreshed, id)
          /\ MpOf(Moved, id) = MpOf(Refreshed, id)
          /\ MpOf(Refreshed, id) >= 1

\* A unit with no MP after the refresh moved and has no MP.
C28_WitnessFloor ==
    /\ Returned
    /\ \E id \in Executed :
          /\ MpOf(Refreshed, id) = 0
          /\ HexOfUnit(Moved, id) # HexOfUnit(Refreshed, id)
          /\ MpOf(Moved, id) = 0

\* C29: a unit whose move was executed is at hex distance exactly 1 from
\* its origin, and a unit whose intent is not at distance 1 from its origin
\* is not moved.
C29_AdjacentMoves ==
    Returned =>
        /\ \A id \in Executed :
              hex_distance(HexOfUnit(Refreshed, id), HexOfUnit(Moved, id)) = 1
        /\ \A id \in IdsOf(Refreshed) :
              (HasMove(id) /\ hex_distance(HexOfUnit(Refreshed, id), IntentOf(id)) # 1)
                  => id \notin Executed

\* The context the build loop starts from, and the context the k-th order of
\* the batch is evaluated in when the uuid4 draws are uu.
PreBuild ==
    phase_research(phase_upkeep_index(tick_begin(call.state, call.res, call.upg)),
                   call.orders)
BuildCtx(k, uu) == build_loop(PreBuild, SubSeq(call.orders, 1, k - 1), 1, uu)
BuildOrdersOf == {k \in 1..Len(call.orders) : call.orders[k].order.type = BUILD}

\* The conditions of a BUILD by player p: the facility exists, p owns it,
\* its hex holds fewer than STACK_CAP units, p's pools cover the cost.
BuildAllowed(c, p, order) ==
    /\ FacilityById(c.facilities, order.fac_id) # 0
    /\ LET fac == c.facilities[FacilityById(c.facilities, order.fac_id)]
       IN /\ fac.owner = p
          /\ Cardinality(UnitsOn(c, Hex(fac.q, fac.r))) < STACK_CAP
          /\ ResGet(c.res, p).M >= CostOf(order.unit).M
          /\ ResGet(c.res, p).F >= CostOf(order.unit).F
          /\ ResGet(c.res, p).I >= CostOf(order.unit).I

\* What a successful BUILD leaves: the pools less the cost, one more unit of
\* the kind on the facility's hex with full HP and MP, one more event, BUILD.
Built(c, d, p, order) ==
    LET fac == c.facilities[FacilityById(c.facilities, order.fac_id)]
        n == Len(c.units)
    IN /\ d.raised = NoError
       /\ d.res = [c.res EXCEPT ![p] = [M |-> @.M - CostOf(order.unit).M,
                                        F |-> @.F - CostOf(order.unit).F,
                                        I |-> @.I - CostOf(order.unit).I]]
       /\ Len(d.units) = n + 1
       /\ SubSeq(d.units, 1, n) = c.units
       /\ d.units[n + 1].type = order.unit
       /\ d.units[n + 1].owner = p
       /\ Hex(d.units[n + 1].q, d.units[n + 1].r) = Hex(fac.q, fac.r)
       /\ d.units[n + 1].hp = get_unit_stats(order.unit).hp * HPScale
       /\ d.units[n + 1].mp = get_unit_stats(order.unit).mp
       /\ Len(d.events) = Len(c.events) + 1
       /\ SubSeq(d.events, 1, Len(c.events)) = c.events
       /\ d.events[Len(d.events)].type = "BUILD"

\* C30: each BUILD order of a batch, evaluated in the context the earlier
\* orders left, succeeds exactly when its conditions hold; a success debits
\* the cost, adds the unit and a BUILD event and lets the tick go on; any
\* other BUILD order leaves pools, units and events as they were.
C30_Build ==
    call.made =>
        \A uu \in UuidDraws(call.orders) :
        \A k \in BuildOrdersOf :
            LET c == BuildCtx(k, uu)
                p == call.orders[k].player
                order == call.orders[k].order
                d == handle_build(p, order, c, uu)
            IN c.raised = NoError =>
                  IF BuildAllowed(c, p, order)
                  THEN Built(c, d, p, order)
                  ELSE /\ d.raised = NoError
                       /\ d.res = c.res
                       /\ d.units = c.units
                       /\ d.events = c.events

\* The context the first research loop starts from, the contexts the k-th
\* order of the batch is evaluated in by the first and by the second research
\* loop, and the RESEARCH orders of the batch.
PreResearch == phase_upkeep_index(tick_begin(call.state, call.res, call.upg))
ResearchCtx(k) == research_loop(PreResearch, SubSeq(call.orders, 1, k - 1), 1)
ResearchAgainCtx(k, uu) ==
    research_loop(phase_build(phase_research(PreResearch, call.orders), call.orders, uu),
                  SubSeq(call.orders, 1, k - 1), 1)
ResearchOrdersOf == {k \in 1..Len(call.orders) : call.orders[k].order.type = RESEARCH}

\* What _handle_research makes of context c for player p: d, with the
\* technology added, 200 Intel debited and one RESEARCH event more, when p
\* has not researched it and holds 200 Intel; d as c otherwise.
ResearchSettled(c, d, p, order) ==
    IF ~InSeq(order.tech_id, UpgGet(c.upg, p)) /\ ResGet(c.res, p).I >= RESEARCH_COST
    THEN /\ d.raised = NoError
         /\ d.res = [c.res EXCEPT ![p].I = @ - RESEARCH_COST]
         /\ UpgGet(d.upg, p) = Append(UpgGet(c.upg, p), order.tech_id)
         /\ \A q \in Players \ {p} : UpgGet(d.upg, q) = UpgGet(c.upg, q)
         /\ d.events = Append(c.events,
                              Event("RESEARCH", Hex(0, 0),
                                    [tech_id |-> order.tech_id, owner |-> p]))
    ELSE /\ d.raised = NoError
         /\ d.res = c.res
         /\ \A q \in Players : UpgGet(d.upg, q) = UpgGet(c.upg, q)
         /\ d.events = c.events

\* The technologies player p gained in the call, and the RESEARCH events of
\* the returned state for p and technology t.
Gained(p) == {t \in TechIds : Researched(player_upgrades, p, t) /\ ~Researched(call.upg, p, t)}
ResearchEvents(p, t) ==
    {i \in 1..Len(call.ret.events) :
        /\ call.ret.events[i].type = "RESEARCH"
        /\ call.ret.events[i].details.owner = p
        /\ call.ret.events[i].details.tech_id = t}

\* C31: each RESEARCH order of a batch, in the context the earlier orders
\* left, adds the technology, debits 200 Intel and emits one RESEARCH event
\* when the player has not researched it and holds 200 Intel, and changes
\* nothing otherwise; the second research loop changes nothing; a call that
\* returns has debited each player 200 Intel and emitted one RESEARCH event
\* for each technology the player gained, and no other RESEARCH event.
C31_Research ==
    call.made =>
        /\ \A k \in ResearchOrdersOf :
              LET c == ResearchCtx(k)
                  p == call.orders[k].player
                  order == call.orders[k].order
              IN c.raised = NoError =>
                    ResearchSettled(c, handle_research(p, order, c), p, order)
        /\ \A uu \in UuidDraws(call.orders) : \A k \in ResearchOrdersOf :
              LET c == ResearchAgainCtx(k, uu)
                  p == call.orders[k].player
                  order == call.orders[k].order
                  d == handle_research(p, order, c)
              IN c.raised = NoError =>
                    /\ ResearchSettled(c, d, p, order)
                    /\ d.res = c.res
                    /\ d.events = c.events
        /\ Returned =>
              \A p \in Players :
                  /\ ResGet(player_resources, p).I
                        = ResGet(call.res, p).I - RESEARCH_COST * Cardinality(Gained(p))
                  /\ \A t \in TechIds :
                        Cardinality(ResearchEvents(p, t)) = IF t \in Gained(p) THEN 1 ELSE 0

\* Two technologies researched in one tick: 400 Intel debited, two events.
C31_Witness ==
    /\ Returned
    /\ Cardinality(Gained(Red)) = 2
    /\ player_resources[Red].I = call.res[Red].I - 2 * RESEARCH_COST
    /\ Len(call.ret.events) >= 2

\* Two orders for two technologies with Intel for one: the earlier one wins.
C31_WitnessOrder ==
    /\ Returned
    /\ Len(call.orders) = 2
    /\ call.orders[1] = Tagged(Red, ResearchOrder("ARMOR_TIER_1"))
    /\ call.orders[2] = Tagged(Red, ResearchOrder("INFANTRY_TIER_1"))
    /\ call.res[Red].I >= RESEARCH_COST
    /\ call.res[Red].I < 2 * RESEARCH_COST
    /\ Gained(Red) = {"ARMOR_TIER_1"}

\* A technology ordered twice with Intel for two: researched and paid once.
C31_WitnessTwice ==
    /\ Returned
    /\ Len(call.orders) = 2
    /\ call.orders[1] = call.orders[2]
    /\ call.orders[1].order.type = RESEARCH
    /\ call.res[Red].I >= 2 * RESEARCH_COST
    /\ Cardinality(Gained(Red)) = 1
    /\ player_resources[Red].I = call.res[Red].I - RESEARCH_COST

\* The Fuel of player p once the first n units of the state have been
\* charged their upkeep, each paid in full or not at all.
RECURSIVE FuelLeft(_, _)
FuelLeft(p, n) ==
    IF n = 0 THEN ResGet(call.res, p).F
    ELSE LET u == call.state.units[n]
             f == FuelLeft(p, n - 1)
         IN IF u.owner = p /\ u.type \in DOMAIN UNIT_UPKEEP /\ f >= UNIT_UPKEEP[u.type]
            THEN f - UNIT_UPKEEP[u.type]
            ELSE f
UpkeepTick == (call.state.tick + 1) % UPKEEP_PERIOD = 0
Paid(i) ==
    LET u == call.state.units[i]
    IN /\ u.owner \in DOMAIN call.res
       /\ FuelLeft(u.owner, i - 1) >= UNIT_UPKEEP[u.type]

\* C32: in a tick whose number is a multiple of UPKEEP_PERIOD a unit with
\* upkeep gets its full MP if its owner's Fuel, as the units before it left
\* it, covers the upkeep, which is then debited, and three quarters of its
\* full MP, rounded down, with no debit if not; in any other tick, and for
\* a unit without upkeep, the unit gets its full MP and no Fuel is debited.
\* Upkeep changes no other pool.
C32_Upkeep ==
    call.made =>
        /\ Len(PreResearch.units) = Len(call.state.units)
        /\ \A i \in 1..Len(call.state.units) :
              LET u == call.state.units[i]
                  MaxMP == get_unit_stats(u.type).mp
              IN PreResearch.units[i].mp =
                    IF UpkeepTick /\ u.type \in DOMAIN UNIT_UPKEEP /\ ~Paid(i)
                    THEN (3 * MaxMP) \div 4
                    ELSE MaxMP
        /\ DOMAIN PreResearch.res = DOMAIN call.res
        /\ \A p \in DOMAIN call.res :
              /\ PreResearch.res[p].M = call.res[p].M
              /\ PreResearch.res[p].I = call.res[p].I
              /\ PreResearch.res[p].F =
                    IF UpkeepTick THEN FuelLeft(p, Len(call.state.units)) ELSE call.res[p].F
              /\ PreResearch.res[p].F >= 0

\* In tick UPKEEP_PERIOD Red paid for its Mechanized and Blue, short of Fuel,
\* did not pay for its Armored, which has no MP; Blue's Fuel is what it was.
C32_Witness ==
    /\ call.made
    /\ scn = "upkeep"
    /\ UpkeepTick
    /\ PreResearch.res[Red].F = call.res[Red].F - UNIT_UPKEEP[MECHANIZED]
    /\ MpOf(PreResearch.units, "u_k") = 2
    /\ call.res[Blue].F > 0
    /\ PreResearch.res[Blue].F = call.res[Blue].F
    /\ MpOf(PreResearch.units, "u_t") = 0

\* In the tick after, the Armored has its full MP again and no Fuel is taken.
C32_WitnessNext ==
    /\ call.made
    /\ scn = "upkeep"
    /\ ~UpkeepTick
    /\ MpOf(call.state.units, "u_t") = 0
    /\ MpOf(PreResearch.units, "u_t") = 1
    /\ PreResearch.res[Red].F = call.res[Red].F

\* The damage the combat phase of context c credits on the hex of entry k of
\* unit_positions when that hex is evaluated alone, from the HP of c; the
\* context c with unit_positions in the order perm of its entries.
HexDamage(c, k) ==
    LET last == [c EXCEPT !.up = Append(c.up, c.up[k])]
    IN combat_hexes(last, Len(last.up), [rem |-> 0, pd |-> NoDamage, c |-> c]).pd
HexOrders(n) == {f \in [1..n -> 1..n] : \A i, j \in 1..n : f[i] = f[j] => i = j}
Reordered(c, perm) == [c EXCEPT !.up = [j \in 1..Len(c.up) |-> c.up[perm[j]]]]
Casualties(events) ==
    {events[i].details.casualties[1] : i \in CombatEvents(events)}

\* C33: the damage credited to a unit is what its hex, evaluated alone from
\* the HP the units had when the combat phase began, credits to it; units
\* are credited by no other hex; the damage credited, the HP left and the
\* casualties are the same in whatever order the hexes are evaluated.
C33_Simultaneous ==
    Returned =>
        LET c == PreCombat
            pd == PendingDamage(c)
            left == resolve_combat(c).units
            fallen == Casualties(resolve_combat(c).events)
        IN /\ \A k \in 1..Len(c.up) :
                 \A id \in DOMAIN HexDamage(c, k) :
                     /\ id \in DOMAIN pd
                     /\ pd[id] = HexDamage(c, k)[id]
                     /\ \A j \in 1..Len(c.up) :
                           id \in DOMAIN HexDamage(c, j) => j = k
           /\ DOMAIN pd = UNION {DOMAIN HexDamage(c, k) : k \in 1..Len(c.up)}
           /\ \A perm \in HexOrders(Len(c.up)) :
                 LET d == resolve_combat(Reordered(c, perm))
                 IN d.units = left /\ Casualties(d.events) = fallen
           /\ call.ret.units = left

\* Units of both owners were damaged in the tick, and a unit that fell in it
\* had damaged an enemy: the only enemy next to that one.
C33_Witness ==
    /\ Returned
    /\ scn = "stack"
    /\ "u_x" \in IdsOf(PreCombat.units)
    /\ "u_x" \notin IdsOf(call.ret.units)
    /\ \E id \in DOMAIN PendingDamage(PreCombat) :
          /\ OwnerOf(PreCombat.units, id) = Red
          /\ PendingDamage(PreCombat)[id] > 0
    /\ Len(PreCombat.up) >= 3

\* The stacks of the combat phase: the entries of unit_positions with units.
\* For entry k: the defenders in the order of the sort, their effective HP,
\* and the raw damage left when the n-th of them is reached.
Stacks(c) == {k \in 1..Len(c.up) : c.up[k].occ # << >>}
Defender(c, k, n) == c.units[SortByHp(c, c.up[k].occ)[n]]
Ehp(c, k, n) ==
    (Defender(c, k, n).hp
        * OneMinusDen(c, Defender(c, k, n), UpgGet(c.upg, c.units[c.up[k].occ[1]].owner)))
    \div OneMinusNum
RECURSIVE RawLeft(_, _, _)
RawLeft(c, k, n) ==
    IF n = 1
    THEN Max(0, TotalIncomingRaw(c, c.up[k].hex, c.units[c.up[k].occ[1]].owner, 1))
    ELSE LET before == RawLeft(c, k, n - 1)
         IN IF before >= Ehp(c, k, n - 1) THEN before - Ehp(c, k, n - 1) ELSE 0
Credit(pd, id) == IF id \in DOMAIN pd THEN pd[id] ELSE 0
Gone(id) == id \notin IdsOf(call.ret.units)

C34_WitnessPruned ==
    /\ Returned
    /\ \E id \in IdsOf(PreCombat.units) :
          /\ Credit(PendingDamage(PreCombat), id) > 0
          /\ Credit(PendingDamage(PreCombat), id) < HpOf(PreCombat.units, id)
          /\ Gone(id)
          /\ id \notin Casualties(call.ret.events)

\* C35: every unit of the state the engine holds has HP above 0.5; after a
\* tick every unit that the damage credited to it left with 0.5 HP or less
\* is gone, every other unit is there with the HP left, and no unit named as
\* a casualty by a COMBAT event of the tick is in the state.
C35_Pruned ==
    /\ \A i \in 1..Len(current_state.units) : 2 * current_state.units[i].hp > HPScale
    /\ Returned =>
          LET c == PreCombat
              pd == PendingDamage(c)
          IN /\ \A i \in 1..Len(call.ret.units) : 2 * call.ret.units[i].hp > HPScale
             /\ \A i \in 1..Len(c.units) :
                   LET u == c.units[i]
                   IN IF 2 * (u.hp - Credit(pd, u.id)) <= HPScale
                      THEN Gone(u.id)
                      ELSE /\ ~Gone(u.id)
                           /\ HpOf(call.ret.units, u.id) = u.hp - Credit(pd, u.id)
             /\ Casualties(call.ret.events) \cap IdsOf(call.ret.units) = {}
             /\ Casualties(call.ret.events) \subseteq IdsOf(c.units)

\* In one tick a unit named as a casualty is gone, a unit left with HP
\* between 0 and 0.5 is gone, and a damaged unit with more is still there.
C35_Witness ==
    /\ Returned
    /\ \E id \in Casualties(call.ret.events) : Gone(id)
    /\ \E id \in IdsOf(PreCombat.units) :
          /\ HpOf(PreCombat.units, id) - Credit(PendingDamage(PreCombat), id) > 0
          /\ 2 * (HpOf(PreCombat.units, id) - Credit(PendingDamage(PreCombat), id)) <= HPScale
          /\ Gone(id)
    /\ \E id \in IdsOf(call.ret.units) : Credit(PendingDamage(PreCombat), id) > 0

\* A tick with an empty batch on a state in which no two units of different
\* owners stand on adjacent hexes.
EnemiesAdjacent(state) ==
    \E i, j \in 1..Len(state.units) :
        /\ state.units[i].owner # state.units[j].owner
        /\ hex_distance(Hex(state.units[i].q, state.units[i].r),
                        Hex(state.units[j].q, state.units[j].r)) = 1
IdleTick == Returned /\ call.orders = << >> /\ ~EnemiesAdjacent(call.state)
Unmoved(i) ==
    /\ call.ret.units[i].id = call.state.units[i].id
    /\ call.ret.units[i].q = call.state.units[i].q
    /\ call.ret.units[i].r = call.state.units[i].r
    /\ call.ret.units[i].hp = call.state.units[i].hp
    /\ call.ret.units[i].owner = call.state.units[i].owner
    /\ call.ret.units[i].type = call.state.units[i].type

\* C36 as stated: after an idle tick every unit has the position and the HP
\* it had and the full MP of its kind, and the state holds no events.
C36_IdleTickAsStated ==
    IdleTick =>
        /\ Len(call.ret.units) = Len(call.state.units)
        /\ \A i \in 1..Len(call.state.units) :
              /\ Unmoved(i)
              /\ call.ret.units[i].mp = get_unit_stats(call.state.units[i].type).mp
        /\ call.ret.events = << >>

\* C36: after an idle tick every unit has the position and the HP it had;
\* its MP is the full MP of its kind, or three quarters of it rounded down
\* if the tick's number is a multiple of UPKEEP_PERIOD and its upkeep was
\* not covered; the state holds no events if at least two players own a
\* Chief, and one ELIMINATION event and the status FINISHED otherwise.
C36_IdleTick ==
    IdleTick =>
        /\ Len(call.ret.units) = Len(call.state.units)
        /\ \A i \in 1..Len(call.state.units) :
              LET u == call.state.units[i]
                  MaxMP == get_unit_stats(u.type).mp
              IN /\ Unmoved(i)
                 /\ call.ret.units[i].mp =
                       IF UpkeepTick /\ u.type \in DOMAIN UNIT_UPKEEP /\ ~Paid(i)
                       THEN (3 * MaxMP) \div 4
                       ELSE MaxMP
        /\ IF Cardinality(ChiefOwners(call.state)) >= 2
           THEN /\ call.ret.events = << >>
                /\ call.ret.game_status = ACTIVE
           ELSE /\ Len(call.ret.events) = 1
                /\ call.ret.events[1].type = "ELIMINATION"
                /\ call.ret.game_status = FINISHED

\* An idle tick of a match with two Chiefs that followed a tick with events:
\* a unit that had spent MP has its full MP again and no event is left.
C36_Witness ==
    /\ IdleTick
    /\ call.state.events # << >>
    /\ Cardinality(ChiefOwners(call.state)) >= 2
    /\ \E i \in 1..Len(call.state.units) :
          call.state.units[i].mp < call.ret.units[i].mp
    /\ call.ret.events = << >>

\* An idle tick on the two Light Infantry of the example, no Chief on the
\* map: the match ends in a draw with an ELIMINATION event.
C36_WitnessDraw ==
    /\ IdleTick
    /\ ChiefOwners(call.state) = {}
    /\ Len(call.state.units) = 2
    /\ Len(call.ret.events) = 1

\* An idle tick whose number is a multiple of UPKEEP_PERIOD, two Chiefs on
\* the map: the Armored whose upkeep is not covered has no MP.
C36_WitnessStarved ==
    /\ IdleTick
    /\ Cardinality(ChiefOwners(call.state)) >= 2
    /\ \E i \in 1..Len(call.ret.units) :
          /\ call.ret.units[i].type = ARMORED
          /\ call.ret.units[i].mp = 0

\* The units of a list are keyed by id: units_by_id of line 90 has one entry
\* for each of them.
UniqueIds(units) ==
    \A i, j \in 1..Len(units) : units[i].id = units[j].id => i = j
BuildsIn(orders) ==
    {k \in 1..Len(orders) : IsPair(orders[k]) /\ orders[k].order.type = BUILD}

\* C37: no two units of the state the engine holds share an id, before and
\* after every tick, whatever BUILD orders the batches held; the same holds
\* of the state a call was given and of the copy it worked on.
C37_UniqueIds ==
    /\ UniqueIds(current_state.units)
    /\ Cardinality(IdsOf(current_state.units)) = Len(current_state.units)
    /\ call.made =>
          /\ UniqueIds(call.state.units)
          /\ UniqueIds(call.arg.units)
          /\ UniqueIds(call.ret.units)

\* A tick whose batch held two BUILD orders: the first spawned a unit with a
\* drawn id in the copy the call worked on, and the state the engine holds
\* has the units it had.
C37_Witness ==
    /\ call.made
    /\ Cardinality(BuildsIn(call.orders)) = 2
    /\ \E i \in 1..Len(call.ret.units) : call.ret.units[i].id \in UuidPool
    /\ IdsOf(current_state.units) = IdsOf(call.state.units)

\* A tick with BUILD orders that returned: none of them spawned a unit.
C37_WitnessReturned ==
    /\ Returned
    /\ BuildsIn(call.orders) # {}
    /\ IdsOf(call.ret.units) \subseteq IdsOf(call.state.units)

(***************************************************************************)
(* Properties of the server, continued                                     *)
(***************************************************************************)
\* The state games[m].current_state names, before and after a step.
MatchState(m) == heap[games[m].current_state]
MatchStateAfter(m) == heap'[games'[m].current_state]

HasElimination(state) == \E i \in 1..Len(state.events) : state.events[i].type = "ELIMINATION"

\* C14: in every step the status of a match stays as it is, or goes from
\* WAITING to ACTIVE in a start_match request, or from ACTIVE to FINISHED
\* when the ticker installs a state with an ELIMINATION event; the status,
\* tick and units of a FINISHED match stay as they are.
C14_Lifecycle ==
    [][\A m \in DOMAIN games :
          LET s == MatchState(m)
              t == MatchStateAfter(m)
          IN /\ \/ t.game_status = s.game_status
                \/ /\ s.game_status = WAITING
                   /\ t.game_status = ACTIVE
                   /\ reply'.op = "start_match"
                \/ /\ s.game_status = ACTIVE
                   /\ t.game_status = FINISHED
                   /\ TickerAt("install")
                   /\ HasElimination(t)
             /\ s.game_status = FINISHED =>
                   /\ t.game_status = FINISHED
                   /\ t.tick = s.tick
                   /\ t.units = s.units]_vars

\* The ticker is at line 71 with match m.
Examining(m) ==
    /\ TickerAt("iter")
    /\ Len(game_order) = ticker.size
    /\ ticker.i <= ticker.size
    /\ TickerMatch = m

\* C15: in every step of a cycle of the ticker, a match examined while not
\* ACTIVE is passed over with its state and buffer as they were; a match
\* examined while ACTIVE enters process_tick, the call returns, and the state
\* installed for it has the tick of the state before plus one; the tick of
\* a match changes in no other step.
C15_SchedulerCycle ==
    [][\A m \in DOMAIN games :
          LET s == MatchState(m)
              t == MatchStateAfter(m)
          IN /\ (Examining(m) /\ ticker' # ticker /\ s.game_status # ACTIVE) =>
                   /\ ticker'.pc = "iter"
                   /\ ticker'.i = ticker.i + 1
                   /\ t = s
                   /\ order_buffers'[m] = order_buffers[m]
             /\ (Examining(m) /\ ticker' # ticker /\ s.game_status = ACTIVE) =>
                   /\ ticker'.pc = "research"
                   /\ ticker'.m = m
             /\ (ticker.pc \in InProcessTick /\ ticker.m = m /\ ticker' # ticker) =>
                   ticker'.pc # "dead"
             /\ (TickerAt("install") /\ ticker.m = m /\ ticker' # ticker) =>
                   t.tick = s.tick + 1
             /\ t.tick # s.tick => (TickerAt("install") /\ ticker.m = m)]_vars

\* Match m is ACTIVE at tick n and the ticker has a process_tick call left.
ActiveAt(m, n) ==
    /\ m \in DOMAIN games
    /\ MatchState(m).game_status = ACTIVE
    /\ MatchState(m).tick = n
    /\ ticker.calls < MaxTicks
Advanced(m, n) ==
    /\ m \in DOMAIN games
    /\ MatchState(m).game_status # ACTIVE \/ MatchState(m).tick > n

\* C16: a match that is ACTIVE at some tick is later at a higher tick or no
\* longer ACTIVE, whatever requests arrive in between.
C16_SchedulerLive ==
    \A m \in MatchIds : \A n \in 0..(MaxTicks - 1) : ActiveAt(m, n) ~> Advanced(m, n)

\* The step is a start_match request for match m: no other step that leaves
\* the ticker and the reader alone ends with an answer of start_match.
StartMatchStep(m) ==
    /\ reply'.op = "start_match"
    /\ reply'.match_id = m
    /\ ticker' = ticker
    /\ reader' = reader

\* C17: a start_match request for a WAITING match is answered 200 and leaves
\* the match ACTIVE; for an unknown match, or one that is not WAITING, it is
\* answered with an error and leaves every match, state and buffer as it was.
C17_StartMatch ==
    [][\A m \in MatchIds :
          StartMatchStep(m) =>
              IF m \in DOMAIN games /\ MatchState(m).game_status = WAITING
              THEN /\ reply'.status = 200
                   /\ MatchStateAfter(m).game_status = ACTIVE
              ELSE /\ reply'.status # 200
                   /\ UNCHANGED << heap, games, game_order, order_buffers >>]_vars

\* The identities get_player_from_token resolves a request to.
Identities == {get_player_from_token(match_auth_tables, m, token) :
                  m \in DOMAIN match_auth_tables, token \in Tokens \cup DOMAIN AuthTable}

\* C18: every element of the buffer of a match, which is what process_tick
\* is handed, is a pair of a player id and an order, and the player id is an
\* identity a token of the match resolves to.
C18_BufferHoldsPairs ==
    \A m \in DOMAIN order_buffers :
        \A k \in 1..Len(order_buffers[m]) :
            /\ IsPair(order_buffers[m][k])
            /\ order_buffers[m][k].player \in Identities

\* The accepted orders that were sent with no token, the observer token or
\* a token the match does not know.
FromObserver == {sn \in DOMAIN ledger : ledger[sn].sender = Observer}

\* C19: an order sent under the observer identity is in no buffer and no
\* loop of process_tick has iterated over it.
C19_ObserverOrdersDiscarded ==
    \A sn \in FromObserver : ~InBuffer(sn) /\ ledger[sn].seen = {}

\* The elements of a sequence, and the number of units with an id in a list.
Elems(seq) == {seq[i] : i \in 1..Len(seq)}
CountId(units, id) == Cardinality({i \in 1..Len(units) : units[i].id = id})

\* C21: what get_state returns to a player has the pools the engine keeps
\* for that player as resources, and, for a state the match has been in
\* between ticks, that player's units as units and the other units as
\* visible units, every unit of the state once in the two lists together.
C21_PlayerView ==
    (reply.op = "get_state" /\ reply.status = 200 /\ reply.player_id # Observer) =>
        LET P == reply.player_id
            own == reply.body.units
            seen == reply.body.visible_units
        IN /\ reply.body.resources = ResGet(games[reply.match_id].player_resources, P)
           /\ \A i \in 1..Len(own) : own[i].owner = P
           /\ \A i \in 1..Len(seen) : seen[i].owner # P
           /\ \E s \in whole[reply.match_id] :
                 /\ Elems(own) \cup Elems(seen) = Elems(s.units)
                 /\ \A id \in IdsOf(s.units) : CountId(own \o seen, id) = 1

\* The sides of a match, and the step is a match_start request for match m.
Sides == {Red, Blue}
MatchStartStep(m) ==
    /\ reply'.op = "match_start"
    /\ reply'.match_id = m
    /\ ticker' = ticker
    /\ reader' = reader

\* C22: a match_start request for an id with no match leaves a match at
\* tick 0 and WAITING with one Chief and one facility of each side and pools
\* for each side in the engine's store; for an id with a match it leaves the
\* states, the engines and the buffers as they were.
C22_MatchInit ==
    [][\A m \in MatchIds :
          MatchStartStep(m) =>
              IF m \notin DOMAIN games
              THEN /\ m \in DOMAIN games'
                   /\ MatchStateAfter(m).tick = 0
                   /\ MatchStateAfter(m).game_status = WAITING
                   /\ order_buffers'[m] = << >>
                   /\ \A p \in Sides :
                         LET t == MatchStateAfter(m)
                         IN /\ Cardinality({i \in 1..Len(t.units) :
                                   t.units[i].type = CHIEF /\ t.units[i].owner = p}) = 1
                            /\ Cardinality({f \in 1..Len(t.facilities) :
                                   t.facilities[f].owner = p}) = 1
                            /\ p \in DOMAIN games'[m].player_resources
              ELSE UNCHANGED << heap, games, game_order, order_buffers,
                                match_auth_tables >>]_vars

(***************************************************************************)
(* Properties of the range functions                                       *)
(***************************************************************************)
SeqSet(seq) == {seq[k] : k \in 1..Len(seq)}
Once(seq) == \A i, j \in 1..Len(seq) : seq[i] = seq[j] => i = j
\* The hexes at a distance from a center, among those a walk of MaxRadius can reach.
Reach == MaxCoord + MaxRadius + 1
AtDistance(center, d) ==
    {h \in {Hex(q, r) : q \in -Reach..Reach, r \in -Reach..Reach} :
        hex_distance(h, center) = d}

\* C38: hex_ring(center, radius) ends without an exception and yields the
\* hexes at hex_distance radius from the center, each once, one hex for
\* radius 0 and 6 * radius otherwise: those hex_spiral(center, radius)
\* yields and hex_spiral(center, radius - 1) does not.
C38_Ring ==
    hex_result.fn = "hex_ring" =>
        /\ hex_result.raised = NoError
        /\ SeqSet(hex_result.yielded) = AtDistance(hex_center, hex_radius)
        /\ Once(hex_result.yielded)
        /\ Len(hex_result.yielded) = IF hex_radius = 0 THEN 1 ELSE 6 * hex_radius
        /\ SeqSet(hex_result.yielded) =
              SeqSet(hex_spiral(hex_center, hex_radius).yielded)
                 \ SeqSet(hex_spiral(hex_center, hex_radius - 1).yielded)

\* hex_spiral ends without an exception and yields the hexes within the
\* radius, each once.
HexSpiralDisc ==
    hex_result.fn = "hex_spiral" =>
        /\ hex_result.raised = NoError
        /\ Once(hex_result.yielded)
        /\ SeqSet(hex_result.yielded) =
              UNION {AtDistance(hex_center, d) : d \in 0..hex_radius}

\* hex_ring with radius 0 yields the center and nothing else.
HexRingZero ==
    (hex_result.fn = "hex_ring" /\ hex_radius = 0) =>
        (hex_result.raised = NoError /\ hex_result.yielded = << hex_center >>)

====
